---- MODULE Spec2Model ----
(***************************************************************************)
(* svarogIO: the event loop (io_context), the work queue behind it, the    *)
(* work guard and the strand, as state machines over threads.              *)
(*                                                                         *)
(* Every atomic step of the C++ code (one mutex-protected queue operation, *)
(* one atomic load/store/CAS) is one action; a thread's position between   *)
(* two such steps is its program counter.                                  *)
(***************************************************************************)
EXTENDS Integers, Sequences, FiniteSets, TLC

\* ---------------------------------------------------------------- bounds
NumWorkers == 2       \* threads that call io_context::run()
NumFairWorkers == 1   \* of these, the threads that run in the fair specifications
NumPosters == 2       \* threads that call strand::post()
NumGuards == 2        \* executor_work_guard objects
NumLoopGuards == 1    \* of these, the guards used where the loop is stopped and restarted
NumResetThreads == 2  \* threads that call reset() on guards they share
NumFds == 2           \* descriptors that get registered with the reactor
NumSharedFds == 1     \* of these, the descriptors used where threads call run_one at the same time
MaxPosts == 2         \* handlers handed to executor_type::execute
MaxStrandPosts == 2   \* handlers handed to strand::post
NumConsumers == 2     \* threads that call work_queue pop()/try_pop()
MaxPush == 3          \* items pushed by the producer of the bare queue
MaxDispatch == 2      \* calls of strand::dispatch
MaxValue == 2         \* values a child task may co_return
MaxTimers == 2        \* calls of timer_queue::add_timer
MaxRegs == 2          \* calls of epoll_reactor::do_register
MaxTime == 2          \* ticks of the steady clock; deadlines lie in 0..MaxTime
MaxEvents == 1        \* epoll_reactor::max_events, the length of m_events (128 in the source)

Workers == 1..NumWorkers
FairWorkers == {w \in Workers : w <= NumFairWorkers}
Posters == (NumWorkers + 1)..(NumWorkers + NumPosters)
Threads == Workers \cup Posters
Guards == 1..NumGuards
LoopGuards == {g \in Guards : g <= NumLoopGuards}
ResetThreads == 1..NumResetThreads
Fds == 1..NumFds
SharedFds == {fd \in Fds : fd <= NumSharedFds}
Consumers == 1..NumConsumers

\* the coroutines of the spawned computation and the pieces of their
\* bodies: p0 | co_await schedule | p1 | co_await child | p2 in the parent,
\* c0 | co_await schedule | c1 in the child
Coroutines == {"parent", "child"}
Segments == {"p0", "p1", "p2", "c0", "c1"}
CoValues == 1..MaxValue

\* the thread inside timer_queue::clear and the one inside process_expired
TimerThreads == {"clear", "process_expired"}

\* ------------------------------------------------------ program constants
\* std::thread::id{} : "no thread"
NoThread == 0
\* "no guard" in rg
NoGuard == 0
\* "run_one() has not returned yet" in ro_ret
NoResult == -1
\* the lambda [state]{ execute_next(state); } as an item of m_handlers;
\* ordinary handlers are the positive integers
Trampoline == 0
\* a handler that hands a copy of itself to execute each time it runs, as
\* an item of m_handlers
Reposter == -1
\* co_spawn.cpp: the lambda co_spawn posts, and the resumptions
\* [t_handle] { t_handle.resume(); } of the parent and of the child
Spawned == -2
ResumeParent == -3
ResumeChild == -4
\* calculate_timeout's poll interval (milliseconds)
PollInterval == 100
\* strand::max_recursion_depth
max_recursion_depth == 100

\* thread_pool::m_work_guard: the guard the pool's constructor makes
m_work_guard == 1
\* timer_queue.hpp: the id that names no timer
invalid_timer_id == 0
\* errno.h: the error a reset connection leaves in SO_ERROR
ECONNRESET == 104

VARIABLES
    \* io_context
    m_stopped,            \* io_context::m_stopped
    m_work_count,         \* io_context::m_work_count
    m_handlers,           \* io_context::m_handlers : its deque
    q_stopped,            \* work_queue_impl::m_stopped of m_handlers
    \* executor_work_guard
    guard,                \* guard[g]: "unborn", "owning" (m_context != nullptr),
                          \*   "released" (m_context == nullptr), "destroyed"
    rpc,                  \* rpc[t]: position of thread t inside a shared guard's reset()
    rg,                   \* rg[t]: the guard thread t is resetting, or NoGuard
    \* threads inside io_context::run()
    pc,                   \* pc[w]: position of worker w
    timeout,              \* timeout[w]: local of run()
    s_current_context,    \* s_current_context[w]: the thread-local of thread w, "this" or "nullptr"
    \* epoll_reactor, and threads inside io_context::run_one()
    r_handlers,           \* epoll_reactor::m_handlers : the registered descriptors
    ro_units,             \* ro_units[w]: units executed by w's current or latest run_one()
    ro_count,             \* ro_count[w]: local `count` of run_one()
    ro_ret,               \* ro_ret[w]: what w's latest run_one() returned, or NoResult
    \* strand_state
    s_queue,              \* strand_state::m_queue
    m_executing,          \* strand_state::m_executing
    m_running_thread_id,  \* strand_state::m_running_thread_id
    ppc,                  \* ppc[t]: position of thread t inside strand::post
    s_execution_depth,    \* s_execution_depth[t]: the thread-local of thread t
    epoll_set,            \* the descriptors in the interest list of m_epoll_fd
    epoll_events,         \* epoll_events[fd]: the event mask fd was added with
    r_entry,              \* r_entry[fd]: the fd_data m_handlers holds for fd
    m_events,             \* epoll_reactor::m_events : the buffer of epoll_wait
    gpc,                  \* position of the thread inside do_register/do_unregister
    g_fd,                 \* its parameter t_fd
    g_ops,                \* its parameter t_ops
    xpc,                  \* xpc[w]: position of thread w inside do_run_one
    x_n,                  \* x_n[w]: local `n`
    x_i,                  \* x_i[w]: local `i`
    x_fd,                 \* x_fd[w]: local `fd`
    x_events,             \* x_events[w]: local `events`
    x_handler,            \* x_handler[w]: local `handler` (the registration it came with)
    \* timer_queue, the steady clock, and the thread inside process_expired
    m_timers,             \* timer_queue::m_timers : its entries in iteration order
    m_id_to_iterator,     \* timer_queue::m_id_to_iterator : the ids it maps
    m_next_id,            \* timer_queue::m_next_id
    clock,                \* clock_type::now()
    tpc,                  \* position of the thread inside process_expired
    pe_now,               \* its parameter t_now
    pe_entry,             \* the entry whose handler its pop_expired() returned
    pe_count,             \* its local `count`
    tq_mutex,             \* the thread that holds timer_queue::m_mutex across steps
    kpc,                  \* position of the thread inside timer_queue::clear
    k_rest,               \* the entries its for loop has not reached yet
    hpc,                  \* hpc[t]: position of the timer handler that thread t runs
    \* thread_pool
    wpc,                  \* wpc[w]: position of pool thread w inside worker_thread
    stop_requested,       \* the pool threads whose stop token was signalled
    spc,                  \* position of the thread inside thread_pool::stop
    \* one computation handed to co_spawn: a task that awaits schedule(),
    \* then a child task that awaits schedule() and returns a value
    co_task,              \* none | posted | dropped | started | done
    co_fault,             \* which of its coroutines throws: none | child | parent
    co_value,             \* the value the child co_returns
    co_at,                \* co_at[c]: where the frame of coroutine c is
    co_running,           \* the code that the worker at co_body is about to execute
    m_continuation,       \* m_continuation[c]: promise.m_continuation
    m_exception,          \* m_exception[c]: promise.m_exception is set
    m_result,             \* the child's promise.m_result (0: empty)
    co_received,          \* what the parent's co_await of the child yielded (0: nothing)
    co_inv,               \* history: handler invocations that ran code of the computation
    seg_log,              \* history: seg_log[s]: the invocation that ran s, and how often
    co_sched_stopped,     \* history: co_sched_stopped[c]: stopped() at c's post of its resumption
    \* the thread that calls stop()/restart()
    ctl,
    \* bare work_queue with blocking consumers
    wq,                   \* work_queue_impl::m_queue
    wq_stopped,           \* work_queue_impl::m_stopped
    wq_mutex,             \* owner of work_queue_impl::m_mutex, or NoThread
    cpc,                  \* cpc[c]: position of consumer c
    \* history
    posted,               \* number of handlers handed to execute or dispatch
    dispatched,           \* dispatched[h]: where dispatch(h) was called from and what it did
    exec_count,           \* exec_count[h]: number of invocations of handler h
    guarded,              \* queued handlers that were accepted while a guard owned work
    s_posted,             \* number of handlers appended to the strand's queue
    s_exec,               \* strand handlers in the order their execution began
    s_threw,              \* strand handlers that threw
    sd_count,             \* number of calls of strand::dispatch
    sd_log,               \* what the calls of strand::dispatch did
    pushed,               \* number of items accepted by the bare queue
    refused,              \* number of push calls on the bare queue that returned false
    tp_ret,               \* what the latest try_pop on the bare queue returned
    pop_log,              \* items in the order they left the bare queue
    reg_count,            \* number of calls of do_register
    reg_ret,              \* the latest call of do_register and how it ended
    delivered,            \* delivered[r]: invocations of the handler of registration r
    fd_state,             \* fd_state[fd]: what last happened to fd's registration
    completion,           \* the arguments of the latest completion handler call
    t_ret,                \* what the latest call on the timer queue returned
    t_added,              \* the timers add_timer returned an id for
    t_cancelled,          \* ids for which cancel_timer returned true
    t_log,                \* the entries pop_expired removed, in order
    t_invoked,            \* ids whose handler process_expired invoked, in order
    pe_removed            \* entries removed by the current or latest process_expired

loop_vars == <<m_stopped, m_work_count, m_handlers, q_stopped, guard, pc, timeout, ctl,
               posted, exec_count, guarded>>
strand_vars == <<s_queue, m_executing, m_running_thread_id, ppc, s_posted, s_exec>>
queue_vars == <<wq, wq_stopped, wq_mutex, cpc, pushed, refused, tp_ret, pop_log>>
race_vars == <<rpc, rg>>
entry_vars == <<s_current_context, dispatched>>
io_vars == <<r_handlers, ro_units, ro_count, ro_ret>>
sx_vars == <<s_execution_depth, s_threw, sd_count, sd_log>>
timer_vars == <<m_timers, m_id_to_iterator, m_next_id, clock, tpc, pe_now, pe_entry,
                pe_count, t_ret, t_added, t_cancelled, t_log, t_invoked, pe_removed>>
rx_vars == <<epoll_set, epoll_events, r_entry, m_events, gpc, g_fd, g_ops, xpc, x_n, x_i,
             x_fd, x_events, x_handler, reg_count, reg_ret, delivered,
             fd_state, completion>>
tc_vars == <<tq_mutex, kpc, k_rest, hpc>>
tp_vars == <<wpc, stop_requested, spc>>
co_vars == <<co_task, co_fault, co_value, co_at, co_running, m_continuation, m_exception,
             m_result, co_received, co_inv, seg_log, co_sched_stopped>>
more_vars == <<tc_vars, tp_vars, co_vars>>
ext_vars == <<sx_vars, timer_vars, rx_vars, more_vars>>
side_vars == <<race_vars, entry_vars, io_vars, ext_vars>>
vars == <<loop_vars, strand_vars, queue_vars, side_vars>>

\* ------------------------------------------------------------ work_queue
\* the container operations of work_queue_impl, each under m_mutex

\* m_queue.empty()
empty(q) == q = <<>>

\* faulty variant of push's test: the stopped flag is not consulted
push_accepts_always(stopped) == TRUE

\* push: rejected when stopped, else push_back
push_accepts(stopped) == ~stopped
push(q, stopped, item) == IF stopped THEN q ELSE Append(q, item)

\* faulty variants of the deque accessors: the back instead of the front,
\* and a pop_front that removes nothing
back(q) == q[Len(q)]
pop_front_keeps(q) == q

\* m_queue.front() / m_queue.pop_front()
front(q) == Head(q)
pop_front(q) == Tail(q)

\* faulty variant of try_pop: a stopped queue hands out nothing, as in pop
try_pop_stopped_first(q, stopped) ==
    IF stopped \/ empty(q)
    THEN [has_value |-> FALSE, error |-> IF stopped THEN "stopped" ELSE "empty", queue |-> q]
    ELSE [has_value |-> TRUE, value |-> front(q), queue |-> pop_front(q)]

\* try_pop: unexpected(stopped|empty) on an empty deque, else the front
try_pop(q, stopped) ==
    IF empty(q)
    THEN [has_value |-> FALSE, error |-> IF stopped THEN "stopped" ELSE "empty", queue |-> q]
    ELSE [has_value |-> TRUE, value |-> front(q), queue |-> pop_front(q)]

\* ---------------------------------------------------------- epoll_reactor
\* io_operation masks are sets of operations, epoll event masks sets of flags
Ops == {{"read"}, {"write"}}
\* the slots of m_events that epoll_wait can fill
Slots == 1..MaxEvents
\* no fd_data, a value-initialised epoll_event, no handler
no_entry == [handler |-> 0, operations |-> {}]
no_event == [fd |-> 0, events |-> {}]

\* ------------------------------------------------------------------ Init
Init ==
    /\ m_stopped = FALSE
    /\ m_work_count = 0
    /\ m_handlers = <<>>
    /\ q_stopped = FALSE
    /\ guard = [g \in Guards |-> "unborn"]
    /\ rpc = [t \in ResetThreads |-> "idle"]
    /\ rg = [t \in ResetThreads |-> NoGuard]
    /\ pc = [w \in Workers |-> "idle"]
    /\ timeout = [w \in Workers |-> 0]
    /\ s_current_context = [w \in Workers |-> "nullptr"]
    /\ r_handlers = {}
    /\ ro_units = [w \in Workers |-> 0]
    /\ ro_count = [w \in Workers |-> 0]
    /\ ro_ret = [w \in Workers |-> NoResult]
    /\ dispatched = [h \in 1..MaxPosts |-> [from |-> "none", how |-> "none"]]
    /\ s_queue = <<>>
    /\ m_executing = FALSE
    /\ m_running_thread_id = NoThread
    /\ ppc = [t \in Threads |-> "idle"]
    /\ s_execution_depth = [t \in Threads |-> 0]
    /\ s_threw = {}
    /\ sd_count = 0
    /\ sd_log = {}
    /\ epoll_set = {}
    /\ epoll_events = [fd \in Fds |-> {}]
    /\ r_entry = [fd \in Fds |-> no_entry]
    /\ m_events = [i \in Slots |-> no_event]
    /\ gpc = "idle"
    /\ g_fd = 0
    /\ g_ops = {}
    /\ xpc = [w \in Workers |-> "idle"]
    /\ x_n = [w \in Workers |-> 0]
    /\ x_i = [w \in Workers |-> 0]
    /\ x_fd = [w \in Workers |-> 0]
    /\ x_events = [w \in Workers |-> {}]
    /\ x_handler = [w \in Workers |-> 0]
    /\ reg_count = 0
    /\ reg_ret = [reg |-> 0, fd |-> 0, prior |-> "none", threw |-> FALSE]
    /\ delivered = [r \in 1..MaxRegs |-> 0]
    /\ fd_state = [fd \in Fds |-> "none"]
    /\ completion = [events |-> {}, ec |-> 0, bytes |-> 0]
    /\ m_timers = <<>>
    /\ m_id_to_iterator = {}
    /\ m_next_id = 1
    /\ clock = 0
    /\ tpc = "idle"
    /\ pe_now = 0
    /\ pe_entry = [id |-> invalid_timer_id, deadline |-> 0]
    /\ pe_count = 0
    /\ t_ret = [op |-> "none", arg |-> 0, ok |-> FALSE, value |-> 0, due |-> FALSE]
    /\ t_added = {}
    /\ t_cancelled = {}
    /\ t_log = <<>>
    /\ t_invoked = <<>>
    /\ pe_removed = 0
    /\ tq_mutex = "none"
    /\ kpc = "idle"
    /\ k_rest = <<>>
    /\ hpc = [t \in TimerThreads |-> "none"]
    /\ wpc = [w \in Workers |-> "unborn"]
    /\ stop_requested = {}
    /\ spc = "idle"
    /\ co_task = "none"
    /\ co_fault = "none"
    /\ co_value = 0
    /\ co_at = [c \in Coroutines |-> "none"]
    /\ co_running = "none"
    /\ m_continuation = [c \in Coroutines |-> "none"]
    /\ m_exception = [c \in Coroutines |-> FALSE]
    /\ m_result = 0
    /\ co_received = 0
    /\ co_inv = 0
    /\ seg_log = [sg \in Segments |-> [inv |-> 0, runs |-> 0]]
    /\ co_sched_stopped = [c \in Coroutines |-> "none"]
    /\ ctl = "idle"
    /\ wq = <<>>
    /\ wq_stopped = FALSE
    /\ wq_mutex = NoThread
    /\ cpc = [c \in Consumers |-> "idle"]
    /\ posted = 0
    /\ exec_count = [h \in 1..MaxPosts |-> 0]
    /\ guarded = {}
    /\ s_posted = 0
    /\ s_exec = <<>>
    /\ pushed = 0
    /\ refused = 0
    /\ tp_ret = [has_value |-> FALSE, value |-> 0, error |-> "none"]
    /\ pop_log = <<>>

\* ------------------------------------------------------------ io_context

\* io_context::executor_type::execute: push onto m_handlers, result ignored
\* (a handler handed over while the queue is stopped is dropped)
execute ==
    /\ posted < MaxPosts
    /\ m_handlers' = push(m_handlers, q_stopped, posted + 1)
    /\ posted' = posted + 1
    /\ guarded' = IF push_accepts(q_stopped) /\ m_work_count > 0 /\ ~m_stopped
                  THEN guarded \cup {posted + 1} ELSE guarded
    /\ UNCHANGED <<m_stopped, m_work_count, q_stopped, guard, pc, timeout, ctl,
                   exec_count, strand_vars, queue_vars, side_vars>>

\* io_context::post, by its specification (4.4): the handler is enqueued
\* for deferred execution and never run by the caller
post == execute

\* executor_work_guard::executor_work_guard(io_context&)
guard_construct(g) ==
    /\ guard[g] = "unborn"
    /\ guard' = [guard EXCEPT ![g] = "owning"]
    /\ m_work_count' = m_work_count + 1
    /\ UNCHANGED <<m_stopped, m_handlers, q_stopped, pc, timeout, ctl,
                   posted, exec_count, guarded, strand_vars, queue_vars, side_vars>>

\* faulty variant of reset: the guard lets go without decrementing the count
guard_reset_keeps_count(g) ==
    /\ guard[g] = "owning"
    /\ guard' = [guard EXCEPT ![g] = "released"]
    /\ UNCHANGED <<m_stopped, m_work_count, m_handlers, q_stopped, pc, timeout, ctl,
                   posted, exec_count, guarded, strand_vars, queue_vars, side_vars>>

\* faulty variant of reset: m_context is not tested before the decrement
guard_reset_unchecked(g) ==
    /\ guard[g] \in {"owning", "released"}
    /\ m_work_count' = m_work_count - 1
    /\ guard' = [guard EXCEPT ![g] = "released"]
    /\ UNCHANGED <<m_stopped, m_handlers, q_stopped, pc, timeout, ctl,
                   posted, exec_count, guarded, strand_vars, queue_vars, side_vars>>

\* executor_work_guard::reset by the thread that owns the guard:
\* if (m_context != nullptr) { fetch_sub(1); notify_all(); m_context = nullptr; }
guard_reset(g) ==
    /\ guard[g] \in {"owning", "released"}
    /\ m_work_count' = IF guard[g] = "owning" THEN m_work_count - 1 ELSE m_work_count
    /\ guard' = [guard EXCEPT ![g] = "released"]
    /\ UNCHANGED <<m_stopped, m_handlers, q_stopped, pc, timeout, ctl,
                   posted, exec_count, guarded, strand_vars, queue_vars, side_vars>>

\* move constructor: g is built from h and takes over h's m_context
guard_move_construct(g, h) ==
    /\ g # h
    /\ guard[g] = "unborn"
    /\ guard[h] \in {"owning", "released"}
    /\ guard' = [guard EXCEPT ![g] = guard[h], ![h] = "released"]
    /\ UNCHANGED <<m_stopped, m_work_count, m_handlers, q_stopped, pc, timeout, ctl,
                   posted, exec_count, guarded, strand_vars, queue_vars, side_vars>>

\* move assignment g = std::move(h):
\* if (this != &other) { reset(); m_context = exchange(other.m_context, nullptr); }
guard_move_assign(g, h) ==
    /\ guard[g] \in {"owning", "released"}
    /\ guard[h] \in {"owning", "released"}
    /\ IF g = h
       THEN UNCHANGED <<guard, m_work_count>>
       ELSE /\ m_work_count' = IF guard[g] = "owning" THEN m_work_count - 1 ELSE m_work_count
            /\ guard' = [guard EXCEPT ![g] = guard[h], ![h] = "released"]
    /\ UNCHANGED <<m_stopped, m_handlers, q_stopped, pc, timeout, ctl,
                   posted, exec_count, guarded, strand_vars, queue_vars, side_vars>>

\* destructor: reset(), then the object is gone
guard_destroy(g) ==
    /\ guard[g] \in {"owning", "released"}
    /\ m_work_count' = IF guard[g] = "owning" THEN m_work_count - 1 ELSE m_work_count
    /\ guard' = [guard EXCEPT ![g] = "destroyed"]
    /\ UNCHANGED <<m_stopped, m_handlers, q_stopped, pc, timeout, ctl,
                   posted, exec_count, guarded, strand_vars, queue_vars, side_vars>>

\* reset() called by threads that share a guard, statement by statement.
\* m_context is a plain pointer: nothing orders one thread's test of it
\* against another thread's store.
\*   idle       outside reset()
\*   fetch_sub  m_context was not nullptr: at m_work_count.fetch_sub(1)
\*   store      at m_context = nullptr (after notify_all)
race_unchanged ==
    UNCHANGED <<m_stopped, m_handlers, q_stopped, pc, timeout, ctl,
                posted, exec_count, guarded, strand_vars, queue_vars, entry_vars, io_vars,
                ext_vars>>

\* reset: if (m_context != nullptr)
reset_test(t, g) ==
    /\ rpc[t] = "idle"
    /\ guard[g] \in {"owning", "released"}
    /\ IF guard[g] = "owning"
       THEN /\ rpc' = [rpc EXCEPT ![t] = "fetch_sub"]
            /\ rg' = [rg EXCEPT ![t] = g]
       ELSE UNCHANGED <<rpc, rg>>
    /\ UNCHANGED <<guard, m_work_count>>
    /\ race_unchanged

\* reset: m_context->m_work_count.fetch_sub(1); notify_all()
reset_fetch_sub(t) ==
    /\ rpc[t] = "fetch_sub"
    /\ m_work_count' = m_work_count - 1
    /\ rpc' = [rpc EXCEPT ![t] = "store"]
    /\ UNCHANGED <<guard, rg>>
    /\ race_unchanged

\* reset: m_context = nullptr
reset_store(t) ==
    /\ rpc[t] = "store"
    /\ guard' = [guard EXCEPT ![rg[t]] = "released"]
    /\ rpc' = [rpc EXCEPT ![t] = "idle"]
    /\ rg' = [rg EXCEPT ![t] = NoGuard]
    /\ UNCHANGED m_work_count
    /\ race_unchanged

\* io_context::stop, first statement: m_stopped.store(true)
stop_store ==
    /\ ctl = "idle"
    /\ m_stopped' = TRUE
    /\ ctl' = "stop_queue"
    /\ UNCHANGED <<m_work_count, m_handlers, q_stopped, guard, pc, timeout,
                   posted, exec_count, guarded, strand_vars, queue_vars, side_vars>>

\* io_context::stop, second statement: m_handlers.stop()
stop_queue ==
    /\ ctl = "stop_queue"
    /\ q_stopped' = TRUE
    /\ ctl' = "idle"
    /\ UNCHANGED <<m_stopped, m_work_count, m_handlers, guard, pc, timeout,
                   posted, exec_count, guarded, strand_vars, queue_vars, side_vars>>

\* io_context::restart (@pre stopped()), first statement: m_handlers.clear()
restart_clear ==
    /\ ctl = "idle"
    /\ m_stopped
    /\ m_handlers' = <<>>
    /\ guarded' = {}
    /\ ctl' = "restart_store"
    /\ UNCHANGED <<m_stopped, m_work_count, q_stopped, guard, pc, timeout,
                   posted, exec_count, strand_vars, queue_vars, side_vars>>

\* io_context::restart, second statement: m_stopped.store(false)
restart_store ==
    /\ ctl = "restart_store"
    /\ m_stopped' = FALSE
    /\ ctl' = "idle"
    /\ UNCHANGED <<m_work_count, m_handlers, q_stopped, guard, pc, timeout,
                   posted, exec_count, guarded, strand_vars, queue_vars, side_vars>>

\* ------------------------------------------------------ io_context::run
\* positions of a worker:
\*   idle         outside run(), never entered
\*   ret_stopped  outside run(), last left because stopped() was true
\*   ret_nowork   outside run(), last left because has_pending_work() was false
\*   while     at `while (!stopped())`
\*   hpw_q     has_pending_work: about to test m_handlers.empty()
\*   hpw_wc    has_pending_work: about to load m_work_count
\*   ct_q      calculate_timeout: about to test m_handlers.empty()
\*   ct_wc     calculate_timeout: about to load m_work_count
\*   reactor   inside m_reactor.run_one(timeout)
\*   drain     at m_handlers.try_pop() of the inner loop
\*   handler   inside (*handler_result)() of an ordinary handler
\*   reposter  inside (*handler_result)() of the self-reposting handler
\*   co_launch, co_resume_parent, co_resume_child, co_body
\*             inside (*handler_result)() of a handler of the coroutine layer
\*   en_*      inside strand::execute_next (see below)

goto(w, label) == pc' = [pc EXCEPT ![w] = label]

\*   ret_run_one    outside, last left run_one()
\*   ret_exception  outside, last left run() by an exception
\*   ro_*           inside run_one() (see below)
OutOfRun == {"idle", "ret_stopped", "ret_nowork", "ret_run_one", "ret_exception"}
\* inside an entry point of the loop
InRun(w) == pc[w] \notin OutOfRun

run_vars_unchanged ==
    UNCHANGED <<m_stopped, m_work_count, m_handlers, q_stopped, guard, timeout, ctl,
                posted, exec_count, guarded, strand_vars, queue_vars, side_vars>>

\* the same for the steps that enter or leave run()
run_edge_unchanged ==
    UNCHANGED <<m_stopped, m_work_count, m_handlers, q_stopped, guard, timeout, ctl,
                posted, exec_count, guarded, strand_vars, queue_vars, race_vars, dispatched,
                io_vars, ext_vars>>

set_context(w, value) == s_current_context' = [s_current_context EXCEPT ![w] = value]

\* io_context::running_in_this_thread
running_in_this_thread(w) == s_current_context[w] = "this"

\* run() is entered: s_current_context = this
run_enter(w) ==
    /\ pc[w] \in OutOfRun
    /\ goto(w, "while")
    /\ set_context(w, "this")
    /\ run_edge_unchanged

\* faulty variant of the loop condition: stopped() is not consulted
run_while_ignores_stop(w) ==
    /\ pc[w] = "while"
    /\ goto(w, "hpw_q")
    /\ run_vars_unchanged

\* while (!stopped()): when stopped, leave the loop, clear
\* s_current_context and return
run_while(w) ==
    /\ pc[w] = "while"
    /\ goto(w, IF m_stopped THEN "ret_stopped" ELSE "hpw_q")
    /\ set_context(w, IF m_stopped THEN "nullptr" ELSE s_current_context[w])
    /\ run_edge_unchanged

\* has_pending_work: if (!m_handlers.empty()) return true
has_pending_work_queue(w) ==
    /\ pc[w] = "hpw_q"
    /\ goto(w, IF ~empty(m_handlers) THEN "ct_q" ELSE "hpw_wc")
    /\ run_vars_unchanged

\* faulty variant of has_pending_work: the work count is not consulted
has_pending_work_no_count(w) ==
    /\ pc[w] = "hpw_wc"
    /\ goto(w, "ret_nowork")
    /\ set_context(w, "nullptr")
    /\ run_edge_unchanged

\* has_pending_work: if (m_work_count > 0) return true; return false,
\* and on false run() breaks out of its loop, clears s_current_context
\* and returns
has_pending_work_count(w) ==
    /\ pc[w] = "hpw_wc"
    /\ goto(w, IF m_work_count > 0 THEN "ct_q" ELSE "ret_nowork")
    /\ set_context(w, IF m_work_count > 0 THEN s_current_context[w] ELSE "nullptr")
    /\ run_edge_unchanged

\* calculate_timeout: if (!m_handlers.empty()) return zero
calculate_timeout_queue(w) ==
    /\ pc[w] = "ct_q"
    /\ IF ~empty(m_handlers)
       THEN /\ goto(w, "reactor")
            /\ timeout' = [timeout EXCEPT ![w] = 0]
       ELSE /\ goto(w, "ct_wc")
            /\ UNCHANGED timeout
    /\ UNCHANGED <<m_stopped, m_work_count, m_handlers, q_stopped, guard, ctl,
                   posted, exec_count, guarded, strand_vars, queue_vars, side_vars>>

\* calculate_timeout: 100ms when a guard is held, else zero
calculate_timeout_count(w) ==
    /\ pc[w] = "ct_wc"
    /\ goto(w, "reactor")
    /\ timeout' = [timeout EXCEPT ![w] = IF m_work_count > 0 THEN PollInterval ELSE 0]
    /\ UNCHANGED <<m_stopped, m_work_count, m_handlers, q_stopped, guard, ctl,
                   posted, exec_count, guarded, strand_vars, queue_vars, side_vars>>

\* what the calls on the reactor leave alone
rx_unchanged_rest ==
    UNCHANGED <<loop_vars, strand_vars, queue_vars, race_vars, entry_vars, ro_units, ro_count,
                ro_ret, sx_vars, timer_vars, more_vars>>

\* to_epoll_events / from_epoll_events / has_operation (epoll_reactor.hpp,
\* reactor_interface.hpp)
to_epoll_events(ops) ==
    (IF "read" \in ops THEN {"EPOLLIN"} ELSE {}) \cup
    (IF "write" \in ops THEN {"EPOLLOUT"} ELSE {})
from_epoll_events(events) ==
    (IF "EPOLLIN" \in events THEN {"read"} ELSE {}) \cup
    (IF "EPOLLOUT" \in events THEN {"write"} ELSE {}) \cup
    (IF "EPOLLERR" \in events THEN {"error"} ELSE {}) \cup
    (IF "EPOLLHUP" \in events THEN {"hangup"} ELSE {})
has_operation(mask, op) == op \in mask

\* epoll_reactor::do_register, up to the end of the locked block:
\* m_handlers[t_fd] = {handler, t_ops}
do_register(fd, ops) ==
    /\ gpc = "idle"
    /\ reg_count < MaxRegs
    /\ reg_count' = reg_count + 1
    /\ r_handlers' = r_handlers \cup {fd}
    /\ r_entry' = [r_entry EXCEPT ![fd] = [handler |-> reg_count + 1, operations |-> ops]]
    /\ gpc' = "ctl"
    /\ g_fd' = fd
    /\ g_ops' = ops
    /\ reg_ret' = [reg |-> reg_count + 1, fd |-> fd, prior |-> fd_state[fd], threw |-> FALSE]
    /\ fd_state' = [fd_state EXCEPT ![fd] = "registered"]
    /\ UNCHANGED <<epoll_set, epoll_events, m_events, xpc, x_n, x_i, x_fd, x_events,
                   x_handler, delivered, completion>>
    /\ rx_unchanged_rest

\* do_register: epoll_ctl(EPOLL_CTL_ADD) - it fails with EEXIST when the
\* descriptor is in the interest list already; then m_handlers.erase(t_fd)
\* and throw
do_register_ctl ==
    /\ gpc = "ctl"
    /\ IF g_fd \in epoll_set
       THEN /\ r_handlers' = r_handlers \ {g_fd}
            /\ r_entry' = [r_entry EXCEPT ![g_fd] = no_entry]
            /\ reg_ret' = [reg_ret EXCEPT !.threw = TRUE]
            /\ fd_state' = [fd_state EXCEPT ![g_fd] = "failed"]
            /\ UNCHANGED <<epoll_set, epoll_events>>
       ELSE /\ epoll_set' = epoll_set \cup {g_fd}
            /\ epoll_events' = [epoll_events EXCEPT ![g_fd] = to_epoll_events(g_ops)]
            /\ UNCHANGED <<r_handlers, r_entry, reg_ret, fd_state>>
    /\ gpc' = "idle"
    /\ g_fd' = 0
    /\ g_ops' = {}
    /\ UNCHANGED <<m_events, xpc, x_n, x_i, x_fd, x_events, x_handler,
                   reg_count, delivered, completion>>
    /\ rx_unchanged_rest

\* epoll_reactor::do_unregister: epoll_ctl(EPOLL_CTL_DEL), ENOENT ignored
do_unregister(fd) ==
    /\ gpc = "idle"
    /\ epoll_set' = epoll_set \ {fd}
    /\ epoll_events' = [epoll_events EXCEPT ![fd] = {}]
    /\ gpc' = "erase"
    /\ g_fd' = fd
    /\ UNCHANGED <<r_handlers, r_entry, m_events, g_ops, xpc, x_n, x_i, x_fd, x_events,
                   x_handler, reg_count, reg_ret, delivered, fd_state, completion>>
    /\ rx_unchanged_rest

\* do_unregister: m_handlers.erase(t_fd) under the mutex
do_unregister_erase ==
    /\ gpc = "erase"
    /\ r_handlers' = r_handlers \ {g_fd}
    /\ r_entry' = [r_entry EXCEPT ![g_fd] = no_entry]
    /\ fd_state' = [fd_state EXCEPT ![g_fd] = "unregistered"]
    /\ gpc' = "idle"
    /\ g_fd' = 0
    /\ UNCHANGED <<epoll_set, epoll_events, m_events, g_ops, xpc, x_n, x_i, x_fd, x_events,
                   x_handler, reg_count, reg_ret, delivered, completion>>
    /\ rx_unchanged_rest

\* epoll_reactor::do_run_one as one step, the way the loop sees it:
\* epoll_wait reports the descriptors in `ready` (none when the wait times
\* out); the completion handler of each of them is taken out of m_handlers
\* (one-shot) and invoked
do_run_one(ready) == r_handlers \ ready

\* the descriptors whose completion handler a call of do_run_one can invoke
deliverable == r_handlers \cap epoll_set

reactor_delivers(ready) ==
    /\ r_handlers' = do_run_one(ready)
    /\ r_entry' = [fd \in Fds |-> IF fd \in ready THEN no_entry ELSE r_entry[fd]]
    /\ delivered' = [r \in 1..MaxRegs |->
                        IF \E fd \in ready : r_entry[fd].handler = r
                        THEN delivered[r] + 1 ELSE delivered[r]]
    /\ fd_state' = [fd \in Fds |-> IF fd \in ready THEN "delivered" ELSE fd_state[fd]]
    /\ UNCHANGED <<epoll_set, epoll_events, m_events, gpc, g_fd, g_ops, xpc, x_n, x_i, x_fd,
                   x_events, x_handler, reg_count, reg_ret, completion>>

\* m_reactor.run_one(timeout) returns: the wait ends after at most
\* `timeout`, the completion handlers of the ready descriptors were invoked
reactor_run_one(w) ==
    /\ pc[w] = "reactor"
    /\ goto(w, "drain")
    /\ timeout' = [timeout EXCEPT ![w] = 0]
    /\ \E ready \in SUBSET deliverable : reactor_delivers(ready)
    /\ UNCHANGED <<m_stopped, m_work_count, m_handlers, q_stopped, guard, ctl,
                   posted, exec_count, guarded, strand_vars, queue_vars, race_vars,
                   entry_vars, ro_units, ro_count, ro_ret, sx_vars, timer_vars, more_vars>>

\* inner loop: m_handlers.try_pop(); break on error, else invoke the handler
run_try_pop(w) ==
    /\ pc[w] = "drain"
    /\ LET r == try_pop(m_handlers, q_stopped) IN
       /\ m_handlers' = r.queue
       /\ IF ~r.has_value
          THEN /\ goto(w, "while")
               /\ UNCHANGED <<exec_count, guarded>>
          ELSE IF r.value = Trampoline
          THEN /\ goto(w, "en_set_id")
               /\ UNCHANGED <<exec_count, guarded>>
          ELSE IF r.value = Reposter
          THEN /\ goto(w, "reposter")
               /\ UNCHANGED <<exec_count, guarded>>
          ELSE IF r.value \in {Spawned, ResumeParent, ResumeChild}
          THEN /\ goto(w, CASE r.value = Spawned -> "co_launch"
                            [] r.value = ResumeParent -> "co_resume_parent"
                            [] r.value = ResumeChild -> "co_resume_child")
               /\ UNCHANGED <<exec_count, guarded>>
          ELSE /\ goto(w, "handler")
               /\ exec_count' = [exec_count EXCEPT ![r.value] = @ + 1]
               /\ guarded' = guarded \ {r.value}
    /\ UNCHANGED <<m_stopped, m_work_count, q_stopped, guard, timeout, ctl,
                   posted, strand_vars, queue_vars, side_vars>>

\* (*handler_result)() returns
handler_return(w) ==
    /\ pc[w] = "handler"
    /\ goto(w, "drain")
    /\ run_vars_unchanged

\* the program hands the self-reposting handler to execute, once
execute_reposter ==
    /\ \A i \in 1..Len(m_handlers) : m_handlers[i] # Reposter
    /\ \A w \in Workers : pc[w] # "reposter"
    /\ m_handlers' = push(m_handlers, q_stopped, Reposter)
    /\ UNCHANGED <<m_stopped, m_work_count, q_stopped, guard, pc, timeout, ctl,
                   posted, exec_count, guarded, strand_vars, queue_vars, side_vars>>

\* (*handler_result)() of the self-reposting handler: it hands a copy of
\* itself to execute and returns
reposter_return(w) ==
    /\ pc[w] = "reposter"
    /\ m_handlers' = push(m_handlers, q_stopped, Reposter)
    /\ goto(w, "drain")
    /\ UNCHANGED <<m_stopped, m_work_count, q_stopped, guard, timeout, ctl,
                   posted, exec_count, guarded, strand_vars, queue_vars, side_vars>>

\* (*handler_result)() throws: the call is not inside any try block, so the
\* exception leaves the inner loop, the outer loop and run() itself; the
\* statement s_current_context = nullptr after the loop is skipped
handler_throw(w) ==
    /\ pc[w] = "handler"
    /\ goto(w, "ret_exception")
    /\ run_vars_unchanged

\* -------------------------------------------------- io_context::run_one
\* positions of a thread inside run_one():
\*   ro_pop1     at the first m_handlers.try_pop()
\*   ro_h1       inside the handler the first try_pop yielded
\*   ro_reactor  at calculate_timeout() and m_reactor.run_one(timeout)
\*   ro_pop2     at the second m_handlers.try_pop()
\*   ro_h2       inside the handler the second try_pop yielded

run_one_unchanged ==
    UNCHANGED <<m_stopped, m_work_count, q_stopped, guard, timeout, ctl, posted,
                strand_vars, queue_vars, race_vars, dispatched, ext_vars>>

\* run_one() is entered: s_current_context = this
run_one_enter(w) ==
    /\ pc[w] \in OutOfRun
    /\ goto(w, "ro_pop1")
    /\ set_context(w, "this")
    /\ ro_units' = [ro_units EXCEPT ![w] = 0]
    /\ ro_count' = [ro_count EXCEPT ![w] = 0]
    /\ ro_ret' = [ro_ret EXCEPT ![w] = NoResult]
    /\ UNCHANGED <<m_handlers, exec_count, guarded, r_handlers>>
    /\ run_one_unchanged

\* first try_pop: a handler, if there is one, is invoked
run_one_try_pop(w) ==
    /\ pc[w] = "ro_pop1"
    /\ LET r == try_pop(m_handlers, q_stopped) IN
       /\ r.has_value => r.value # Trampoline
       /\ m_handlers' = r.queue
       /\ IF r.has_value
          THEN /\ goto(w, "ro_h1")
               /\ exec_count' = [exec_count EXCEPT ![r.value] = @ + 1]
               /\ guarded' = guarded \ {r.value}
               /\ ro_units' = [ro_units EXCEPT ![w] = @ + 1]
          ELSE /\ goto(w, "ro_reactor")
               /\ UNCHANGED <<exec_count, guarded, ro_units>>
    /\ UNCHANGED <<s_current_context, r_handlers, ro_count, ro_ret>>
    /\ run_one_unchanged

\* the handler returns: s_current_context = nullptr; return 1
run_one_handler_return(w) ==
    /\ pc[w] \in {"ro_h1", "ro_h2"}
    /\ goto(w, "ret_run_one")
    /\ set_context(w, "nullptr")
    /\ ro_ret' = [ro_ret EXCEPT ![w] = 1]
    /\ UNCHANGED <<m_handlers, exec_count, guarded, r_handlers, ro_units, ro_count>>
    /\ run_one_unchanged

\* count = m_reactor.run_one(calculate_timeout()): the timeout only bounds
\* the wait; every descriptor reported ready has its completion handler
\* invoked, and count is their number
run_one_reactor(w) ==
    /\ pc[w] = "ro_reactor"
    /\ goto(w, "ro_pop2")
    /\ \E ready \in SUBSET deliverable :
         /\ reactor_delivers(ready)
         /\ ro_count' = [ro_count EXCEPT ![w] = Cardinality(ready)]
         /\ ro_units' = [ro_units EXCEPT ![w] = @ + Cardinality(ready)]
    /\ UNCHANGED <<m_handlers, exec_count, guarded, s_current_context, ro_ret>>
    /\ UNCHANGED <<m_stopped, m_work_count, q_stopped, guard, timeout, ctl, posted,
                   strand_vars, queue_vars, race_vars, dispatched, sx_vars, timer_vars, more_vars>>

\* second try_pop: a handler, if there is one, is invoked; else
\* s_current_context = nullptr; return count
run_one_second_try_pop(w) ==
    /\ pc[w] = "ro_pop2"
    /\ LET r == try_pop(m_handlers, q_stopped) IN
       /\ r.has_value => r.value # Trampoline
       /\ m_handlers' = r.queue
       /\ IF r.has_value
          THEN /\ goto(w, "ro_h2")
               /\ exec_count' = [exec_count EXCEPT ![r.value] = @ + 1]
               /\ guarded' = guarded \ {r.value}
               /\ ro_units' = [ro_units EXCEPT ![w] = @ + 1]
               /\ UNCHANGED <<s_current_context, ro_ret>>
          ELSE /\ goto(w, "ret_run_one")
               /\ set_context(w, "nullptr")
               /\ ro_ret' = [ro_ret EXCEPT ![w] = ro_count[w]]
               /\ UNCHANGED <<exec_count, guarded, ro_units>>
    /\ UNCHANGED <<r_handlers, ro_count>>
    /\ run_one_unchanged

\* the steps of thread w inside run_one()
RunOneStep(w) ==
    \/ run_one_try_pop(w)
    \/ run_one_handler_return(w)
    \/ run_one_reactor(w)
    \/ run_one_second_try_pop(w)

\* --------------------------------------------- calls made by a handler
\* io_context::dispatch(h) by thread w, from a handler it is executing or
\* from outside every entry point of the loop: run h synchronously when
\* running_in_this_thread(), else enqueue it as post does.
dispatch(w) ==
    /\ pc[w] \in OutOfRun \cup {"handler"}
    /\ posted < MaxPosts
    /\ posted' = posted + 1
    /\ IF running_in_this_thread(w)
       THEN /\ exec_count' = [exec_count EXCEPT ![posted + 1] = @ + 1]
            /\ UNCHANGED m_handlers
       ELSE /\ m_handlers' = push(m_handlers, q_stopped, posted + 1)
            /\ UNCHANGED exec_count
    /\ dispatched' = [dispatched EXCEPT ![posted + 1] =
                         [from |-> IF pc[w] = "handler" THEN "handler" ELSE "outside",
                          how |-> IF running_in_this_thread(w) THEN "sync" ELSE "queued"]]
    /\ UNCHANGED <<m_stopped, m_work_count, q_stopped, guard, pc, timeout, ctl, guarded,
                   strand_vars, queue_vars, race_vars, s_current_context, io_vars,
                   ext_vars>>

\* io_context::poll_one() called by the handler that thread w is executing:
\* s_current_context = this; m_reactor.poll_one(); one try_pop, the handler
\* it yields is invoked and returns; s_current_context = nullptr.
handler_poll_one(w) ==
    /\ pc[w] = "handler"
    /\ LET r == try_pop(m_handlers, q_stopped) IN
       /\ r.has_value => r.value # Trampoline
       /\ m_handlers' = r.queue
       /\ exec_count' = IF r.has_value THEN [exec_count EXCEPT ![r.value] = @ + 1]
                        ELSE exec_count
       /\ guarded' = IF r.has_value THEN guarded \ {r.value} ELSE guarded
    /\ \E ready \in SUBSET deliverable : reactor_delivers(ready)
    /\ set_context(w, "nullptr")
    /\ UNCHANGED <<m_stopped, m_work_count, q_stopped, guard, pc, timeout, ctl, posted,
                   strand_vars, queue_vars, race_vars, dispatched, ro_units, ro_count, ro_ret,
                   sx_vars, timer_vars, more_vars>>

\* ---------------------------------------------------------------- strand
\* The strand's executor is the io_context's executor_type; its private
\* m_queue is never stopped (nothing calls stop() on it).

strand_unchanged_loop ==
    UNCHANGED <<m_stopped, m_work_count, q_stopped, guard, timeout, ctl,
                posted, exec_count, guarded, queue_vars, side_vars>>

pgoto(p, label) == ppc' = [ppc EXCEPT ![p] = label]

\* strand::post, first statement: m_state->m_queue.push(wrapped handler)
post_push(p) ==
    /\ ppc[p] = "idle"
    /\ s_posted < MaxStrandPosts
    /\ s_queue' = push(s_queue, FALSE, s_posted + 1)
    /\ s_posted' = s_posted + 1
    /\ pgoto(p, "cas")
    /\ UNCHANGED <<m_handlers, pc, m_executing, m_running_thread_id, s_exec>>
    /\ strand_unchanged_loop

\* faulty variant of the CAS in post: schedules a trampoline whatever the flag
post_cas_blind(p) ==
    /\ ppc[p] = "cas"
    /\ m_executing' = TRUE
    /\ pgoto(p, "execute")
    /\ UNCHANGED <<m_handlers, pc, s_queue, m_running_thread_id, s_posted, s_exec>>
    /\ strand_unchanged_loop

\* strand::post: m_executing.compare_exchange_strong(false, true)
post_cas(p) ==
    /\ ppc[p] = "cas"
    /\ IF m_executing = FALSE
       THEN /\ m_executing' = TRUE
            /\ pgoto(p, "execute")
       ELSE /\ UNCHANGED m_executing
            /\ pgoto(p, "idle")
    /\ UNCHANGED <<m_handlers, pc, s_queue, m_running_thread_id, s_posted, s_exec>>
    /\ strand_unchanged_loop

\* strand::post: m_executor.execute([state] { execute_next(state); })
post_execute(p) ==
    /\ ppc[p] = "execute"
    /\ m_handlers' = push(m_handlers, q_stopped, Trampoline)
    /\ pgoto(p, "idle")
    /\ UNCHANGED <<pc, s_queue, m_executing, m_running_thread_id, s_posted, s_exec>>
    /\ strand_unchanged_loop

\* positions of a worker inside strand::execute_next:
\*   en_set_id      at the first m_running_thread_id.store(this thread)
\*   en_try_pop     at m_queue.try_pop()
\*   en_handler     inside (*result)()
\*   en_clear_id    at m_running_thread_id.store(thread::id{})
\*   en_release     at m_executing.store(false)
\*   en_recheck     at if (m_queue.empty())
\*   en_cas         at m_executing.compare_exchange_strong(false, true)
\*   en_restore_id  at the last m_running_thread_id.store(this thread)

\* execute_next: m_running_thread_id.store(get_id())
en_set_id(w) ==
    /\ pc[w] = "en_set_id"
    /\ m_running_thread_id' = w
    /\ goto(w, "en_try_pop")
    /\ UNCHANGED <<m_handlers, s_queue, m_executing, ppc, s_posted, s_exec>>
    /\ strand_unchanged_loop

\* execute_next: result = m_queue.try_pop(); invoke it when it has a value
en_try_pop(w) ==
    /\ pc[w] = "en_try_pop"
    /\ LET r == try_pop(s_queue, FALSE) IN
       /\ s_queue' = r.queue
       /\ IF r.has_value
          THEN /\ s_exec' = Append(s_exec, r.value)
               /\ goto(w, "en_handler")
          ELSE /\ UNCHANGED s_exec
               /\ goto(w, "en_clear_id")
    /\ UNCHANGED <<m_handlers, m_executing, m_running_thread_id, ppc, s_posted>>
    /\ strand_unchanged_loop

\* execute_next: (*result)() returns; continue.  The handler is not inside
\* a call of post or dispatch that it made.
en_handler_return(w) ==
    /\ pc[w] = "en_handler"
    /\ ppc[w] = "idle"
    /\ s_execution_depth[w] = 0
    /\ goto(w, "en_try_pop")
    /\ UNCHANGED <<m_handlers, s_queue, m_executing, m_running_thread_id, ppc, s_posted, s_exec>>
    /\ strand_unchanged_loop

\* what the steps of a throwing strand handler leave alone
strand_throw_unchanged ==
    UNCHANGED <<m_stopped, m_work_count, m_handlers, q_stopped, guard, timeout, ctl,
                posted, exec_count, guarded, s_queue, m_executing, m_running_thread_id,
                ppc, s_posted, s_exec, queue_vars, race_vars, entry_vars, io_vars,
                s_execution_depth, sd_count, sd_log, timer_vars, rx_vars,
                more_vars>>

\* faulty variant of the try block: the exception leaves execute_next and
\* run(), the draining flag and the running-thread id stay as they are
en_handler_throw_escapes(w) ==
    /\ pc[w] = "en_handler"
    /\ ppc[w] = "idle"
    /\ s_execution_depth[w] = 0
    /\ s_threw' = s_threw \cup {s_exec[Len(s_exec)]}
    /\ goto(w, "ret_exception")
    /\ strand_throw_unchanged

\* execute_next: (*result)() throws; catch (...) swallows; continue
en_handler_throw(w) ==
    /\ pc[w] = "en_handler"
    /\ ppc[w] = "idle"
    /\ s_execution_depth[w] = 0
    /\ s_threw' = s_threw \cup {s_exec[Len(s_exec)]}
    /\ goto(w, "en_try_pop")
    /\ strand_throw_unchanged

\* strand::dispatch called by thread t: by the handler of this strand that
\* worker t is executing, or by a thread outside the loop.  Inline
\* execution is the call t_handler() between ++s_execution_depth and
\* --s_execution_depth; the other two branches call post.
strand_dispatch_unchanged ==
    UNCHANGED <<m_stopped, m_work_count, m_handlers, q_stopped, guard, pc, timeout, ctl,
                posted, exec_count, guarded, m_executing, m_running_thread_id, s_exec,
                queue_vars, race_vars, entry_vars, io_vars, s_threw, timer_vars, rx_vars,
                more_vars>>

\* a handler of the strand is running on thread t: the one execute_next
\* invoked, or one that dispatch invoked inline
in_strand_handler(t) ==
    \/ t \in Workers /\ pc[t] = "en_handler"
    \/ s_execution_depth[t] > 0

\* faulty variant of running_in_this_thread: true whenever some thread is
\* recorded as the drainer
strand_running_in_some_thread(t) == m_running_thread_id # NoThread

\* strand::running_in_this_thread
strand_running_in_this_thread(t) == m_running_thread_id = t

\* faulty variant of the body of dispatch: the depth test is > instead of >=
strand_dispatch_call_late(t) ==
    /\ ppc[t] = "idle"
    /\ t \in Workers => pc[t] = "en_handler"
    /\ LET inline == /\ strand_running_in_this_thread(t)
                      /\ ~(s_execution_depth[t] > max_recursion_depth)
       IN /\ IF inline
             THEN /\ s_execution_depth' = [s_execution_depth EXCEPT ![t] = @ + 1]
                  /\ UNCHANGED <<s_queue, s_posted, ppc>>
             ELSE /\ s_posted < MaxStrandPosts
                  /\ s_queue' = push(s_queue, FALSE, s_posted + 1)
                  /\ s_posted' = s_posted + 1
                  /\ pgoto(t, "cas")
                  /\ UNCHANGED s_execution_depth
          /\ sd_log' = sd_log \cup {[in_handler |-> in_strand_handler(t),
                                      busy |-> m_executing,
                                      inline |-> inline]}
    /\ strand_dispatch_unchanged

\* the body of strand::dispatch up to the call of t_handler() or of post
strand_dispatch_call(t) ==
    /\ ppc[t] = "idle"
    /\ t \in Workers => pc[t] = "en_handler"
    /\ LET inline == /\ strand_running_in_this_thread(t)
                      /\ ~(s_execution_depth[t] >= max_recursion_depth)
       IN /\ IF inline
             THEN /\ s_execution_depth' = [s_execution_depth EXCEPT ![t] = @ + 1]
                  /\ UNCHANGED <<s_queue, s_posted, ppc>>
             ELSE /\ s_posted < MaxStrandPosts
                  /\ s_queue' = push(s_queue, FALSE, s_posted + 1)
                  /\ s_posted' = s_posted + 1
                  /\ pgoto(t, "cas")
                  /\ UNCHANGED s_execution_depth
          /\ sd_log' = sd_log \cup {[in_handler |-> in_strand_handler(t),
                                      busy |-> m_executing,
                                      inline |-> inline]}
    /\ strand_dispatch_unchanged

\* strand::dispatch, at most MaxDispatch calls in all
strand_dispatch(t) ==
    /\ sd_count < MaxDispatch
    /\ sd_count' = sd_count + 1
    /\ strand_dispatch_call(t)

\* the calls of strand::dispatch that are executing their handler inline
RECURSIVE inline_calls(_)
inline_calls(ts) ==
    IF ts = {} THEN 0
    ELSE LET t == CHOOSE x \in ts : TRUE
         IN s_execution_depth[t] + inline_calls(ts \ {t})

\* strand::dispatch called by handlers that nest their calls to any depth:
\* at most MaxDispatch calls in all have returned or posted
dispatch_deep(t) ==
    /\ sd_count - inline_calls(Threads) < MaxDispatch
    /\ sd_count' = sd_count + 1
    /\ strand_dispatch_call(t)

\* strand::dispatch: t_handler() returns and --s_execution_depth, or it
\* throws and --s_execution_depth; throw - either way control is back in
\* the handler that called dispatch
dispatch_return(t) ==
    /\ ppc[t] = "idle"
    /\ t \in Workers => pc[t] = "en_handler"
    /\ s_execution_depth[t] > 0
    /\ s_execution_depth' = [s_execution_depth EXCEPT ![t] = @ - 1]
    /\ UNCHANGED <<s_queue, s_posted, ppc, sd_count, sd_log>>
    /\ strand_dispatch_unchanged

\* execute_next: m_running_thread_id.store(std::thread::id{})
en_clear_id(w) ==
    /\ pc[w] = "en_clear_id"
    /\ m_running_thread_id' = NoThread
    /\ goto(w, "en_release")
    /\ UNCHANGED <<m_handlers, s_queue, m_executing, ppc, s_posted, s_exec>>
    /\ strand_unchanged_loop

\* execute_next: m_executing.store(false, release)
en_release(w) ==
    /\ pc[w] = "en_release"
    /\ m_executing' = FALSE
    /\ goto(w, "en_recheck")
    /\ UNCHANGED <<m_handlers, s_queue, m_running_thread_id, ppc, s_posted, s_exec>>
    /\ strand_unchanged_loop

\* faulty variant of the double check: return without looking at the queue
en_recheck_skipped(w) ==
    /\ pc[w] = "en_recheck"
    /\ goto(w, "drain")
    /\ UNCHANGED <<m_handlers, s_queue, m_executing, m_running_thread_id, ppc, s_posted, s_exec>>
    /\ strand_unchanged_loop

\* execute_next: if (m_queue.empty()) return;
en_recheck(w) ==
    /\ pc[w] = "en_recheck"
    /\ goto(w, IF empty(s_queue) THEN "drain" ELSE "en_cas")
    /\ UNCHANGED <<m_handlers, s_queue, m_executing, m_running_thread_id, ppc, s_posted, s_exec>>
    /\ strand_unchanged_loop

\* execute_next: if (!m_executing.compare_exchange_strong(false, true)) return;
en_cas(w) ==
    /\ pc[w] = "en_cas"
    /\ IF m_executing = FALSE
       THEN /\ m_executing' = TRUE
            /\ goto(w, "en_restore_id")
       ELSE /\ UNCHANGED m_executing
            /\ goto(w, "drain")
    /\ UNCHANGED <<m_handlers, s_queue, m_running_thread_id, ppc, s_posted, s_exec>>
    /\ strand_unchanged_loop

\* execute_next: m_running_thread_id.store(get_id()) after reacquiring
en_restore_id(w) ==
    /\ pc[w] = "en_restore_id"
    /\ m_running_thread_id' = w
    /\ goto(w, "en_try_pop")
    /\ UNCHANGED <<m_handlers, s_queue, m_executing, ppc, s_posted, s_exec>>
    /\ strand_unchanged_loop

\* ------------------------------------------------- work_queue, blocking
\* A bare work_queue with one producer thread and consumers that call
\* pop() or try_pop().  pop() holds m_mutex across its steps; a consumer
\* inside m_cv.wait has released the mutex and is in position "waiting".
\*   idle     outside any call
\*   pred     holds the mutex, about to evaluate the wait predicate
\*   block    predicate was false, about to release the mutex and block
\*   waiting  blocked in m_cv.wait
\*   woken    notified (or woken spuriously), about to reacquire the mutex
\*   take     predicate was true, at `if (m_stopped.load())`

queue_unchanged_rest == UNCHANGED <<loop_vars, strand_vars, side_vars>>

cgoto(c, label) == cpc' = [cpc EXCEPT ![c] = label]

Waiting == {c \in Consumers : cpc[c] = "waiting"}

\* m_cv.notify_one(): wakes one waiting thread, if there is one
notify_one(c) ==
    IF Waiting = {}
    THEN UNCHANGED cpc
    ELSE c \in Waiting /\ cgoto(c, "woken")

\* m_cv.notify_all(): wakes every waiting thread
notify_all == cpc' = [c \in Consumers |-> IF cpc[c] = "waiting" THEN "woken" ELSE cpc[c]]

\* work_queue_impl::push by the producer
wq_push ==
    /\ wq_mutex = NoThread
    /\ pushed + refused < MaxPush
    /\ wq' = push(wq, wq_stopped, pushed + 1)
    /\ IF push_accepts(wq_stopped)
       THEN /\ pushed' = pushed + 1
            /\ \E c \in Consumers : notify_one(c)
            /\ UNCHANGED refused
       ELSE /\ refused' = refused + 1
            /\ UNCHANGED <<pushed, cpc>>
    /\ UNCHANGED <<wq_stopped, wq_mutex, tp_ret, pop_log>>
    /\ queue_unchanged_rest

\* work_queue_impl::try_pop by consumer c
wq_try_pop(c) ==
    /\ cpc[c] = "idle"
    /\ wq_mutex = NoThread
    /\ LET r == try_pop(wq, wq_stopped) IN
       /\ wq' = r.queue
       /\ pop_log' = IF r.has_value THEN Append(pop_log, r.value) ELSE pop_log
       /\ tp_ret' = IF r.has_value
                    THEN [has_value |-> TRUE, value |-> r.value, error |-> "none"]
                    ELSE [has_value |-> FALSE, value |-> 0, error |-> r.error]
    /\ UNCHANGED <<wq_stopped, wq_mutex, cpc, pushed, refused>>
    /\ queue_unchanged_rest

\* work_queue_impl::pop: std::unique_lock lock(m_mutex)
pop_lock(c) ==
    /\ cpc[c] = "idle"
    /\ wq_mutex = NoThread
    /\ wq_mutex' = c
    /\ cgoto(c, "pred")
    /\ UNCHANGED <<wq, wq_stopped, pushed, refused, tp_ret, pop_log>>
    /\ queue_unchanged_rest

\* m_cv.wait: evaluate !m_queue.empty() || m_stopped.load()
pop_pred(c) ==
    /\ cpc[c] = "pred"
    /\ cgoto(c, IF ~empty(wq) \/ wq_stopped THEN "take" ELSE "block")
    /\ UNCHANGED <<wq, wq_stopped, wq_mutex, pushed, refused, tp_ret, pop_log>>
    /\ queue_unchanged_rest

\* m_cv.wait: release the mutex and block
pop_block(c) ==
    /\ cpc[c] = "block"
    /\ wq_mutex' = NoThread
    /\ cgoto(c, "waiting")
    /\ UNCHANGED <<wq, wq_stopped, pushed, refused, tp_ret, pop_log>>
    /\ queue_unchanged_rest

\* m_cv.wait: a spurious wake-up
pop_spurious(c) ==
    /\ cpc[c] = "waiting"
    /\ cgoto(c, "woken")
    /\ UNCHANGED <<wq, wq_stopped, wq_mutex, pushed, refused, tp_ret, pop_log>>
    /\ queue_unchanged_rest

\* m_cv.wait: reacquire the mutex after a wake-up
pop_wake(c) ==
    /\ cpc[c] = "woken"
    /\ wq_mutex = NoThread
    /\ wq_mutex' = c
    /\ cgoto(c, "pred")
    /\ UNCHANGED <<wq, wq_stopped, pushed, refused, tp_ret, pop_log>>
    /\ queue_unchanged_rest

\* pop: if (m_stopped.load()) return unexpected(stopped); else take the front.
\* front() and pop_front() of a deque that a concurrent clear() has emptied
\* are undefined: the call yields any item
pop_take(c) ==
    /\ cpc[c] = "take"
    /\ IF wq_stopped
       THEN UNCHANGED <<wq, pop_log>>
       ELSE IF empty(wq)
       THEN /\ \E item \in 1..MaxPush : pop_log' = Append(pop_log, item)
            /\ UNCHANGED wq
       ELSE /\ wq' = pop_front(wq)
            /\ pop_log' = Append(pop_log, front(wq))
    /\ wq_mutex' = NoThread
    /\ cgoto(c, "idle")
    /\ UNCHANGED <<wq_stopped, pushed, refused, tp_ret>>
    /\ queue_unchanged_rest

\* work_queue_impl::stop: m_stopped.store(true); m_cv.notify_all()
wq_stop ==
    /\ wq_stopped' = TRUE
    /\ notify_all
    /\ UNCHANGED <<wq, wq_mutex, pushed, refused, tp_ret, pop_log>>
    /\ queue_unchanged_rest

\* work_queue_impl::clear: m_queue.clear(), m_mutex is not taken
wq_clear ==
    /\ wq' = <<>>
    /\ UNCHANGED <<wq_stopped, wq_mutex, cpc, pushed, refused, tp_ret, pop_log>>
    /\ queue_unchanged_rest

QueueNext ==
    \/ wq_push
    \/ wq_stop
    \/ \E c \in Consumers : wq_try_pop(c)
    \/ \E c \in Consumers : pop_lock(c)
    \/ \E c \in Consumers : pop_pred(c)
    \/ \E c \in Consumers : pop_block(c)
    \/ \E c \in Consumers : pop_spurious(c)
    \/ \E c \in Consumers : pop_wake(c)
    \/ \E c \in Consumers : pop_take(c)

QueueSpec == Init /\ [][QueueNext]_vars

\* the steps of consumer c inside pop() that it takes without waiting for
\* anybody: it holds the mutex
PopStep(c) == pop_pred(c) \/ pop_block(c) \/ pop_take(c)

\* A consumer inside pop() keeps running; a woken consumer gets the mutex
\* again, however often others take it in between.  Spurious wake-ups may
\* never happen, and calling push, stop, pop or try_pop is the program's
\* choice: no fairness.
QueueFairSpec ==
    /\ Init
    /\ [][QueueNext]_vars
    /\ \A c \in Consumers : WF_vars(PopStep(c))
    /\ \A c \in Consumers : SF_vars(pop_wake(c))

\* ------------------------------------------- epoll_reactor::do_run_one
\* do_run_one statement by statement, for threads that call it at the same
\* time.  m_events is a member: every caller's epoll_wait writes it and
\* every caller's loop reads it, with nothing ordering the accesses, so a
\* read yields what any earlier epoll_wait left in the slot.
\*   idle      outside do_run_one
\*   x_fd      at `auto fd = m_events.at(i).data.fd`
\*   x_events  at `auto events = from_epoll_events(m_events.at(i).events)`
\*   x_lookup  at the locked block that finds and erases m_handlers[fd]
\*   x_invoke  at `if (handler)` with a handler
\* Locals are reset to their initial values where they go out of scope, and
\* so is a slot of the buffer that no thread inside do_run_one has yet to
\* read: epoll_wait writes it before it is read again.

\* the flags the kernel reports for ordinary readiness of descriptor fd,
\* and with the conditions it reports whatever was asked for
EpollFlags == {"EPOLLIN", "EPOLLOUT", "EPOLLERR", "EPOLLHUP"}
plain_reports == [fd \in Fds |-> {epoll_events[fd]} \ {{}}]
all_reports ==
    [fd \in Fds |-> {m \cup c : m \in SUBSET epoll_events[fd],
                                c \in SUBSET {"EPOLLERR", "EPOLLHUP"}} \ {{}}]

\* what epoll_wait can put into the buffer: one event for each of some
\* descriptors of the interest list, in any order, max_events at most
RECURSIVE event_lists(_, _)
event_lists(fds, reports) ==
    {<<>>} \cup
    UNION {{<<[fd |-> fd, events |-> m]>> \o rest :
               m \in reports[fd], rest \in event_lists(fds \ {fd}, reports)} : fd \in fds}
epoll_wait(reports) == {l \in event_lists(epoll_set, reports) : Len(l) <= MaxEvents}

x_unchanged ==
    UNCHANGED <<epoll_set, epoll_events, gpc, g_fd, g_ops, reg_count, reg_ret>>

\* some thread inside do_run_one has yet to read m_events.at(i)
slot_pending(i) ==
    \E w \in Workers :
        /\ xpc[w] # "idle"
        /\ i <= x_n[w]
        /\ IF xpc[w] \in {"x_fd", "x_events"} THEN x_i[w] <= i ELSE x_i[w] < i

\* the buffer after a step that leaves `events` in it
m_events_after(events) ==
    m_events' = [i \in Slots |-> IF slot_pending(i)' THEN events[i] ELSE no_event]

\* do_run_one: the for loop goes to its next event, or the call returns
x_next(w) ==
    /\ x_fd' = [x_fd EXCEPT ![w] = 0]
    /\ x_events' = [x_events EXCEPT ![w] = {}]
    /\ x_handler' = [x_handler EXCEPT ![w] = 0]
    /\ IF x_i[w] < x_n[w]
       THEN /\ x_i' = [x_i EXCEPT ![w] = @ + 1]
            /\ xpc' = [xpc EXCEPT ![w] = "x_fd"]
            /\ UNCHANGED x_n
       ELSE /\ x_i' = [x_i EXCEPT ![w] = 0]
            /\ x_n' = [x_n EXCEPT ![w] = 0]
            /\ xpc' = [xpc EXCEPT ![w] = "idle"]
    /\ m_events_after(m_events)

\* do_run_one: n = epoll_wait(m_epoll_fd, m_events.data(), max_events, timeout)
do_run_one_wait(w, ready) ==
    /\ xpc[w] = "idle"
    /\ ready # <<>>
    /\ x_n' = [x_n EXCEPT ![w] = Len(ready)]
    /\ x_i' = [x_i EXCEPT ![w] = 1]
    /\ xpc' = [xpc EXCEPT ![w] = "x_fd"]
    /\ m_events_after([i \in Slots |-> IF i <= Len(ready) THEN ready[i] ELSE m_events[i]])
    /\ UNCHANGED <<r_handlers, r_entry, x_fd, x_events, x_handler, delivered, fd_state,
                   completion>>
    /\ x_unchanged
    /\ rx_unchanged_rest

\* do_run_one: auto fd = m_events.at(i).data.fd
do_run_one_fd(w) ==
    /\ xpc[w] = "x_fd"
    /\ x_fd' = [x_fd EXCEPT ![w] = m_events[x_i[w]].fd]
    /\ xpc' = [xpc EXCEPT ![w] = "x_events"]
    /\ UNCHANGED <<r_handlers, r_entry, m_events, x_n, x_i, x_events, x_handler,
                   delivered, fd_state, completion>>
    /\ x_unchanged
    /\ rx_unchanged_rest

\* do_run_one: auto events = from_epoll_events(m_events.at(i).events)
do_run_one_events(w) ==
    /\ xpc[w] = "x_events"
    /\ x_events' = [x_events EXCEPT ![w] = from_epoll_events(m_events[x_i[w]].events)]
    /\ xpc' = [xpc EXCEPT ![w] = "x_lookup"]
    /\ UNCHANGED <<r_handlers, r_entry, x_n, x_i, x_fd, x_handler,
                   delivered, fd_state, completion>>
    /\ m_events_after(m_events)
    /\ x_unchanged
    /\ rx_unchanged_rest

\* faulty variant of the locked block: the handler is copied out and the
\* entry stays in m_handlers
do_run_one_lookup_keeps(w) ==
    /\ xpc[w] = "x_lookup"
    /\ IF x_fd[w] \in r_handlers
       THEN /\ x_handler' = [x_handler EXCEPT ![w] = r_entry[x_fd[w]].handler]
            /\ xpc' = [xpc EXCEPT ![w] = "x_invoke"]
            /\ UNCHANGED <<x_n, x_i, x_fd, x_events>>
       ELSE x_next(w)
    /\ x_fd[w] \in r_handlers => UNCHANGED m_events
    /\ UNCHANGED <<r_handlers, r_entry, fd_state, delivered, completion>>
    /\ x_unchanged
    /\ rx_unchanged_rest

\* do_run_one: under m_mutex, if m_handlers has fd, move its handler out
\* and erase the entry; without a handler the loop goes on
do_run_one_lookup(w) ==
    /\ xpc[w] = "x_lookup"
    /\ IF x_fd[w] \in r_handlers
       THEN /\ x_handler' = [x_handler EXCEPT ![w] = r_entry[x_fd[w]].handler]
            /\ r_handlers' = r_handlers \ {x_fd[w]}
            /\ r_entry' = [r_entry EXCEPT ![x_fd[w]] = no_entry]
            /\ fd_state' = [fd_state EXCEPT ![x_fd[w]] = "delivered"]
            /\ xpc' = [xpc EXCEPT ![w] = "x_invoke"]
            /\ UNCHANGED <<x_n, x_i, x_fd, x_events, m_events>>
       ELSE /\ x_next(w)
            /\ UNCHANGED <<r_handlers, r_entry, fd_state>>
    /\ UNCHANGED <<delivered, completion>>
    /\ x_unchanged
    /\ rx_unchanged_rest

\* do_run_one: ec is what getsockopt(SO_ERROR) yields (`error`) when the
\* event has io_operation::error, else the default error_code;
\* handler(ec, 0).  (The count the call returns is not modelled.)
do_run_one_invoke(w, error) ==
    /\ xpc[w] = "x_invoke"
    /\ LET ec == IF has_operation(x_events[w], "error") THEN error ELSE 0 IN
       completion' = [events |-> x_events[w], ec |-> ec, bytes |-> 0]
    /\ delivered' = [delivered EXCEPT ![x_handler[w]] = @ + 1]
    /\ x_next(w)
    /\ UNCHANGED <<r_handlers, r_entry, fd_state>>
    /\ x_unchanged
    /\ rx_unchanged_rest

\* what SO_ERROR holds for a descriptor that reports EPOLLERR: its pending
\* error
SoErrors == {ECONNRESET}

\* the steps of thread w inside do_run_one after epoll_wait has returned
ReactorStep(w) ==
    \/ do_run_one_fd(w)
    \/ do_run_one_events(w)
    \/ do_run_one_lookup(w)
    \/ \E error \in SoErrors : do_run_one_invoke(w, error)

\* The reactor under threads that call run_one at the same time: the
\* program registers descriptors to read from, they become readable.
ReactorNext ==
    \/ \E fd \in SharedFds : do_register(fd, {"read"})
    \/ do_register_ctl
    \/ \E w \in Workers, ready \in epoll_wait(plain_reports) : do_run_one_wait(w, ready)
    \/ \E w \in Workers : ReactorStep(w)

ReactorSpec == Init /\ [][ReactorNext]_vars

\* The reactor under one thread that calls run_one: the program registers
\* and unregisters descriptors to read from or write to, they become ready
\* and report errors and hang-ups.
EventNext ==
    \/ \E fd \in Fds, ops \in Ops : do_register(fd, ops)
    \/ do_register_ctl
    \/ \E fd \in Fds : do_unregister(fd)
    \/ do_unregister_erase
    \/ \E w \in FairWorkers, ready \in epoll_wait(all_reports) : do_run_one_wait(w, ready)
    \/ \E w \in FairWorkers : ReactorStep(w)

EventSpec == Init /\ [][EventNext]_vars

\* The bare queue with a thread that calls clear().
ClearNext ==
    \/ QueueNext
    \/ wq_clear

ClearSpec == Init /\ [][ClearNext]_vars

\* ----------------------------------------------------------- timer_queue
\* Every member function holds m_mutex for its whole body, so each is one
\* step; process_expired holds no lock of its own and is a loop of calls.
\* Time is counted in ticks of the steady clock.
\*   idle      outside process_expired
\*   pe_pop    at `auto handler = pop_expired()`
\*   pe_check  at `if (clock_type::now() > t_now)`
\* Its locals are reset to their initial values where they go out of scope.

tc_unchanged_rest ==
    UNCHANGED <<loop_vars, strand_vars, queue_vars, race_vars, entry_vars, io_vars, sx_vars,
                rx_vars, tp_vars, co_vars>>

timer_unchanged_rest == tc_unchanged_rest /\ UNCHANGED more_vars

Deadlines == 0..MaxTime
\* the ids a caller may pass: invalid_timer_id, the ids add_timer can have
\* returned, and one that it never returns
TimerIds == invalid_timer_id..(MaxTimers + 1)

\* timer_entry::operator>
timer_greater(a, b) == a.deadline > b.deadline

\* two entries are the same key of std::set<timer_entry, std::greater<>>
\* when neither is ordered before the other
timer_equivalent(a, b) == ~timer_greater(a, b) /\ ~timer_greater(b, a)

\* m_timers.emplace(entry): nothing is inserted when an equivalent key is
\* present; else the entry goes where std::greater<> orders it
emplace(timers, e) ==
    IF \E i \in 1..Len(timers) : timer_equivalent(timers[i], e)
    THEN [inserted |-> FALSE, timers |-> timers]
    ELSE [inserted |-> TRUE,
          timers |-> SelectSeq(timers, LAMBDA x : timer_greater(x, e)) \o <<e>>
                     \o SelectSeq(timers, LAMBDA x : timer_greater(e, x))]

\* m_timers.erase(iterator of the entry with that id)
erase(timers, id) == SelectSeq(timers, LAMBDA x : x.id # id)

\* m_timers.begin()
begin(timers) == timers[1]

\* timer_queue::get_next_expiry
get_next_expiry(timers) ==
    IF empty(timers)
    THEN [has_value |-> FALSE, value |-> 0]
    ELSE [has_value |-> TRUE, value |-> begin(timers).deadline]

\* history: the smallest deadline among the entries of `timers`, and
\* whether one of them is due at `t`
least_deadline(timers) ==
    CHOOSE d \in Deadlines :
        /\ \E i \in 1..Len(timers) : timers[i].deadline = d
        /\ \A i \in 1..Len(timers) : timers[i].deadline >= d
some_due(timers, t) == \E i \in 1..Len(timers) : timers[i].deadline <= t

returned(op, arg, ok, value, due) ==
    [op |-> op, arg |-> arg, ok |-> ok, value |-> value, due |-> due]

\* the body of timer_queue::add_timer(t_deadline, t_handler), under m_mutex
add_timer_body(d) ==
    /\ m_next_id <= MaxTimers
    /\ LET id == m_next_id
           r == emplace(m_timers, [id |-> id, deadline |-> d])
       IN /\ m_next_id' = id + 1
          /\ m_timers' = r.timers
          /\ m_id_to_iterator' = IF r.inserted THEN m_id_to_iterator \cup {id}
                                  ELSE m_id_to_iterator
          /\ t_added' = t_added \cup {[id |-> id, deadline |-> d]}
          /\ t_ret' = returned("add_timer", d, TRUE, id, FALSE)
    /\ UNCHANGED <<clock, tpc, pe_now, pe_entry, pe_count, t_cancelled, t_log, t_invoked,
                   pe_removed>>

\* timer_queue::add_timer called by the program
add_timer(d) == add_timer_body(d) /\ timer_unchanged_rest

\* the body of timer_queue::cancel_timer(t_id), under m_mutex
cancel_timer_body(id) ==
    /\ IF id \notin m_id_to_iterator
       THEN /\ t_ret' = returned("cancel_timer", id, FALSE, 0, FALSE)
            /\ UNCHANGED <<m_timers, m_id_to_iterator, t_cancelled>>
       ELSE /\ m_timers' = erase(m_timers, id)
            /\ m_id_to_iterator' = m_id_to_iterator \ {id}
            /\ t_cancelled' = t_cancelled \cup {id}
            /\ t_ret' = returned("cancel_timer", id, TRUE, 0, FALSE)
    /\ UNCHANGED <<m_next_id, clock, tpc, pe_now, pe_entry, pe_count, t_added, t_log,
                   t_invoked, pe_removed>>

\* faulty variant of cancel_timer: the id leaves the index, the entry stays
cancel_timer_keeps_entry(id) ==
    /\ IF id \notin m_id_to_iterator
       THEN /\ t_ret' = returned("cancel_timer", id, FALSE, 0, FALSE)
            /\ UNCHANGED <<m_id_to_iterator, t_cancelled>>
       ELSE /\ m_id_to_iterator' = m_id_to_iterator \ {id}
            /\ t_cancelled' = t_cancelled \cup {id}
            /\ t_ret' = returned("cancel_timer", id, TRUE, 0, FALSE)
    /\ UNCHANGED <<m_timers, m_next_id, clock, tpc, pe_now, pe_entry, pe_count, t_added, t_log,
                   t_invoked, pe_removed>>
    /\ timer_unchanged_rest

\* timer_queue::cancel_timer called by the program
cancel_timer(id) == cancel_timer_body(id) /\ timer_unchanged_rest

\* the body of timer_queue::pop_expired: what it returns and what it leaves
pop_expired_body(timers, index, t) ==
    IF empty(timers) \/ begin(timers).deadline > t
    THEN [has_value |-> FALSE, entry |-> [id |-> invalid_timer_id, deadline |-> 0],
          timers |-> timers, index |-> index]
    ELSE [has_value |-> TRUE, entry |-> begin(timers),
          timers |-> erase(timers, begin(timers).id), index |-> index \ {begin(timers).id}]

\* history: the entry pop_expired removed, when, and what was pending
popped(timers, e, t) ==
    [id |-> e.id, deadline |-> e.deadline, at |-> t, least |-> least_deadline(timers)]

\* timer_queue::pop_expired called by the program
pop_expired ==
    /\ LET r == pop_expired_body(m_timers, m_id_to_iterator, clock) IN
       /\ m_timers' = r.timers
       /\ m_id_to_iterator' = r.index
       /\ t_log' = IF r.has_value THEN Append(t_log, popped(m_timers, r.entry, clock))
                   ELSE t_log
       /\ t_ret' = returned("pop_expired", 0, r.has_value, r.entry.id, some_due(m_timers, clock))
    /\ UNCHANGED <<m_next_id, clock, tpc, pe_now, pe_entry, pe_count, t_added, t_cancelled,
                   t_invoked, pe_removed>>
    /\ timer_unchanged_rest

\* timer_queue::process_expired(t_now) is called with the current time
process_expired_enter ==
    /\ tpc = "idle"
    /\ tpc' = "pe_pop"
    /\ pe_now' = clock
    /\ pe_count' = 0
    /\ pe_removed' = 0
    /\ UNCHANGED <<m_timers, m_id_to_iterator, m_next_id, clock, pe_entry, t_ret, t_added,
                   t_cancelled, t_log, t_invoked>>
    /\ timer_unchanged_rest

\* process_expired: while (auto handler = pop_expired()); return count
pe_pop ==
    /\ tpc = "pe_pop"
    /\ LET r == pop_expired_body(m_timers, m_id_to_iterator, clock) IN
       /\ m_timers' = r.timers
       /\ m_id_to_iterator' = r.index
       /\ IF r.has_value
          THEN /\ pe_entry' = r.entry
               /\ pe_removed' = pe_removed + 1
               /\ t_log' = Append(t_log, popped(m_timers, r.entry, clock))
               /\ tpc' = "pe_check"
               /\ UNCHANGED <<pe_now, t_ret>>
          ELSE /\ tpc' = "idle"
               /\ t_ret' = returned("process_expired", pe_now, TRUE, pe_count, FALSE)
               /\ pe_now' = 0
               /\ UNCHANGED <<pe_entry, pe_removed, t_log>>
    /\ UNCHANGED <<m_next_id, clock, pe_count, t_added, t_cancelled, t_invoked>>
    /\ timer_unchanged_rest

\* process_expired: if (clock_type::now() > t_now) break;
\* (*handler)(std::error_code{}); ++count;
pe_check ==
    /\ tpc = "pe_check"
    /\ IF clock > pe_now
       THEN /\ tpc' = "idle"
            /\ t_ret' = returned("process_expired", pe_now, TRUE, pe_count, FALSE)
            /\ pe_now' = 0
            /\ UNCHANGED <<pe_count, t_invoked>>
       ELSE /\ t_invoked' = Append(t_invoked, pe_entry.id)
            /\ pe_count' = pe_count + 1
            /\ tpc' = "pe_pop"
            /\ UNCHANGED <<pe_now, t_ret>>
    /\ pe_entry' = [id |-> invalid_timer_id, deadline |-> 0]
    /\ UNCHANGED <<m_timers, m_id_to_iterator, m_next_id, clock, t_added,
                   t_cancelled, t_log, pe_removed>>
    /\ timer_unchanged_rest

\* the steady clock advances
tick ==
    /\ clock < MaxTime
    /\ clock' = clock + 1
    /\ UNCHANGED <<m_timers, m_id_to_iterator, m_next_id, tpc, pe_now, pe_entry, pe_count,
                   t_ret, t_added, t_cancelled, t_log, t_invoked, pe_removed>>
    /\ timer_unchanged_rest

\* The timer queue: threads add, cancel and pop timers while one thread
\* is inside process_expired and time passes.
TimerNext ==
    \/ \E d \in Deadlines : add_timer(d)
    \/ \E id \in TimerIds : cancel_timer(id)
    \/ pop_expired
    \/ process_expired_enter
    \/ pe_pop
    \/ pe_check
    \/ tick

TimerSpec == Init /\ [][TimerNext]_vars

\* ------------------------------------------ timer handlers that call back
\* clear() holds m_mutex from its first statement to its return and calls
\* the handler of every entry in between; process_expired calls a handler
\* after pop_expired has returned and released the mutex.  A handler may
\* call add_timer or cancel_timer on the queue that invokes it.
\*   kpc     idle | iterate (at the for, holding m_mutex) | handler
\*   hpc[t]  none    t runs no handler
\*           handler t is inside a handler
\*           lock    the handler is at `std::unique_lock lock(m_mutex)` of
\*                   its call of add_timer or cancel_timer
\*           blocked the lock never returns
\*           threw   the lock threw std::system_error
\*           done    the call has returned
tc_unchanged_timer ==
    UNCHANGED <<m_timers, m_id_to_iterator, m_next_id, clock, tpc, pe_now, pe_entry,
                pe_count, t_ret, t_added, t_cancelled, t_log, t_invoked, pe_removed>>

\* clear: std::unique_lock lock(m_mutex)
clear_lock ==
    /\ kpc = "idle"
    /\ tq_mutex = "none"
    /\ tq_mutex' = "clear"
    /\ k_rest' = m_timers
    /\ kpc' = "iterate"
    /\ UNCHANGED hpc
    /\ tc_unchanged_timer
    /\ tc_unchanged_rest

\* clear: for (entry : m_timers) if (entry.handler) entry.handler(operation_canceled)
clear_invoke ==
    /\ kpc = "iterate"
    /\ ~empty(k_rest)
    /\ k_rest' = Tail(k_rest)
    /\ kpc' = "handler"
    /\ hpc' = [hpc EXCEPT !["clear"] = "handler"]
    /\ UNCHANGED tq_mutex
    /\ tc_unchanged_timer
    /\ tc_unchanged_rest

\* the handler that clear invoked returns
clear_handler_return ==
    /\ kpc = "handler"
    /\ hpc["clear"] \in {"handler", "done", "threw"}
    /\ kpc' = "iterate"
    /\ hpc' = [hpc EXCEPT !["clear"] = "none"]
    /\ UNCHANGED <<tq_mutex, k_rest>>
    /\ tc_unchanged_timer
    /\ tc_unchanged_rest

\* clear: m_timers.clear(); m_id_to_iterator.clear(); the lock is released
clear_finish ==
    /\ kpc = "iterate"
    /\ empty(k_rest)
    /\ m_timers' = <<>>
    /\ m_id_to_iterator' = {}
    /\ tq_mutex' = "none"
    /\ kpc' = "idle"
    /\ UNCHANGED <<k_rest, hpc>>
    /\ UNCHANGED <<m_next_id, clock, tpc, pe_now, pe_entry, pe_count, t_ret, t_added,
                   t_cancelled, t_log, t_invoked, pe_removed>>
    /\ tc_unchanged_rest

\* process_expired: (*handler)(std::error_code{}) begins
pe_invoke ==
    /\ tpc = "pe_check"
    /\ clock <= pe_now
    /\ hpc["process_expired"] = "none"
    /\ hpc' = [hpc EXCEPT !["process_expired"] = "handler"]
    /\ t_invoked' = Append(t_invoked, pe_entry.id)
    /\ UNCHANGED <<tq_mutex, kpc, k_rest>>
    /\ UNCHANGED <<m_timers, m_id_to_iterator, m_next_id, clock, tpc, pe_now, pe_entry,
                   pe_count, t_ret, t_added, t_cancelled, t_log, pe_removed>>
    /\ tc_unchanged_rest

\* process_expired: the handler returns; ++count
pe_handler_return ==
    /\ tpc = "pe_check"
    /\ hpc["process_expired"] \in {"handler", "done"}
    /\ hpc' = [hpc EXCEPT !["process_expired"] = "none"]
    /\ pe_count' = pe_count + 1
    /\ tpc' = "pe_pop"
    /\ pe_entry' = [id |-> invalid_timer_id, deadline |-> 0]
    /\ UNCHANGED <<tq_mutex, kpc, k_rest>>
    /\ UNCHANGED <<m_timers, m_id_to_iterator, m_next_id, clock, pe_now, t_ret, t_added,
                   t_cancelled, t_log, t_invoked, pe_removed>>
    /\ tc_unchanged_rest

\* the handler that thread t runs calls add_timer or cancel_timer
handler_call(t) ==
    /\ hpc[t] = "handler"
    /\ hpc' = [hpc EXCEPT ![t] = "lock"]
    /\ UNCHANGED <<tq_mutex, kpc, k_rest>>
    /\ tc_unchanged_timer
    /\ tc_unchanged_rest

\* the call is add_timer: its lock is granted, its body runs, it returns
handler_add_timer(t, d) ==
    /\ hpc[t] = "lock"
    /\ tq_mutex = "none"
    /\ add_timer_body(d)
    /\ hpc' = [hpc EXCEPT ![t] = "done"]
    /\ UNCHANGED <<tq_mutex, kpc, k_rest>>
    /\ tc_unchanged_rest

\* the call is cancel_timer: its lock is granted, its body runs, it returns
handler_cancel_timer(t, id) ==
    /\ hpc[t] = "lock"
    /\ tq_mutex = "none"
    /\ cancel_timer_body(id)
    /\ hpc' = [hpc EXCEPT ![t] = "done"]
    /\ UNCHANGED <<tq_mutex, kpc, k_rest>>
    /\ tc_unchanged_rest

\* the thread locks the std::shared_mutex it already owns: undefined; the
\* lock never returns, or it throws resource_deadlock_would_occur
handler_relock(t) ==
    /\ hpc[t] = "lock"
    /\ tq_mutex = t
    /\ \E outcome \in {"blocked", "threw"} : hpc' = [hpc EXCEPT ![t] = outcome]
    /\ UNCHANGED <<tq_mutex, kpc, k_rest>>
    /\ tc_unchanged_timer
    /\ tc_unchanged_rest

\* The timer queue with handlers that call back into it: threads add
\* timers, one thread is inside process_expired, one calls clear().
TimerClearNext ==
    \/ \E d \in Deadlines : tq_mutex = "none" /\ add_timer(d)
    \/ process_expired_enter
    \/ tq_mutex = "none" /\ pe_pop
    \/ clock > pe_now /\ pe_check
    \/ pe_invoke
    \/ pe_handler_return
    \/ tick
    \/ clear_lock
    \/ clear_invoke
    \/ clear_handler_return
    \/ clear_finish
    \/ \E t \in TimerThreads : handler_call(t)
    \/ \E t \in TimerThreads, d \in Deadlines : handler_add_timer(t, d)
    \/ \E t \in TimerThreads, id \in TimerIds : handler_cancel_timer(t, id)
    \/ \E t \in TimerThreads : handler_relock(t)

TimerClearSpec == Init /\ [][TimerClearNext]_vars

\* ------------------------------------------------------------------ Next

\* the steps of thread w inside run()
RunStep(w) ==
    \/ run_while(w)
    \/ has_pending_work_queue(w)
    \/ has_pending_work_count(w)
    \/ calculate_timeout_queue(w)
    \/ calculate_timeout_count(w)
    \/ reactor_run_one(w)
    \/ run_try_pop(w)

\* the steps of worker w inside execute_next
DrainStep(w) ==
    \/ en_set_id(w)
    \/ en_try_pop(w)
    \/ en_handler_return(w)
    \/ en_clear_id(w)
    \/ en_release(w)
    \/ en_recheck(w)
    \/ en_cas(w)
    \/ en_restore_id(w)

\* the steps of thread p inside strand::post after it has pushed
PostStep(p) == post_cas(p) \/ post_execute(p)

\* what the rest of the program does to the loop
LoopCalls ==
    \/ execute
    \/ \E g \in LoopGuards : guard_construct(g)
    \/ \E g \in LoopGuards : guard_reset(g)
    \/ stop_store
    \/ stop_queue
    \/ restart_clear
    \/ restart_store

\* what the rest of the program does with a strand on a loop it never stops
StrandCalls ==
    \/ \E g \in LoopGuards : guard_construct(g)
    \/ \E g \in LoopGuards : guard_reset(g)
    \/ \E p \in Posters : post_push(p)
    \/ \E p \in Posters : PostStep(p)

\* The loop with ordinary handlers, guards, stop and restart.
LoopNext ==
    \/ LoopCalls
    \/ \E w \in Workers : run_enter(w)
    \/ \E w \in Workers : RunStep(w)
    \/ \E w \in Workers : handler_return(w)

LoopSpec == Init /\ [][LoopNext]_vars

\* One strand on a loop that is never stopped: posting threads, workers, guards.
StrandNext ==
    \/ StrandCalls
    \/ \E w \in Workers : run_enter(w)
    \/ \E w \in Workers : RunStep(w)
    \/ \E w \in Workers : DrainStep(w)

StrandSpec == Init /\ [][StrandNext]_vars

\* One strand whose handlers may throw.
StrandThrowNext ==
    \/ \E p \in Posters : post_push(p)
    \/ \E p \in Posters : PostStep(p)
    \/ \E w \in Workers : run_enter(w)
    \/ \E w \in Workers : RunStep(w)
    \/ \E w \in Workers : DrainStep(w)
    \/ \E w \in Workers : en_handler_throw(w)

StrandThrowSpec == Init /\ [][StrandThrowNext]_vars

\* One strand whose handlers call dispatch on it, as do threads outside
\* the loop.
StrandDispatchNext ==
    \/ \E p \in Posters : post_push(p)
    \/ \E t \in Threads : PostStep(t)
    \/ \E t \in Threads : strand_dispatch(t)
    \/ \E t \in Threads : dispatch_return(t)
    \/ \E w \in Workers : run_enter(w)
    \/ \E w \in Workers : RunStep(w)
    \/ \E w \in Workers : DrainStep(w)

StrandDispatchSpec == Init /\ [][StrandDispatchNext]_vars

\* what the owner of the guards does with them
GuardCalls ==
    \/ \E g \in Guards : guard_construct(g)
    \/ \E g, h \in Guards : guard_move_construct(g, h)
    \/ \E g, h \in Guards : guard_move_assign(g, h)
    \/ \E g \in Guards : guard_reset(g)
    \/ \E g \in Guards : guard_destroy(g)

\* Guards are constructed, moved, reset and destroyed, each by one thread at
\* a time, while threads run the loop.
GuardNext ==
    \/ GuardCalls
    \/ \E w \in FairWorkers : run_enter(w)
    \/ \E w \in FairWorkers : RunStep(w)

GuardSpec == Init /\ [][GuardNext]_vars

\* Guards are constructed by their owner and reset by threads that share
\* them, while threads run the loop.
RaceNext ==
    \/ \E g \in Guards : guard_construct(g)
    \/ \E t \in ResetThreads, g \in Guards : reset_test(t, g)
    \/ \E t \in ResetThreads : reset_fetch_sub(t)
    \/ \E t \in ResetThreads : reset_store(t)
    \/ \E w \in FairWorkers : run_enter(w)
    \/ \E w \in FairWorkers : RunStep(w)

RaceSpec == Init /\ [][RaceNext]_vars

\* The loop with handlers that call dispatch and poll_one.
DispatchNext ==
    \/ execute
    \/ \E w \in Workers : dispatch(w)
    \/ \E w \in Workers : handler_poll_one(w)
    \/ \E w \in Workers : run_enter(w)
    \/ \E w \in Workers : RunStep(w)
    \/ \E w \in Workers : handler_return(w)

DispatchSpec == Init /\ [][DispatchNext]_vars

\* The loop with descriptors registered with its reactor: threads call
\* run() and run_one(), the program posts handlers and registers descriptors.
IoNext ==
    \/ execute
    \/ \E fd \in Fds : do_register(fd, {"read"})
    \/ do_register_ctl
    \/ \E w \in Workers : run_enter(w)
    \/ \E w \in Workers : RunStep(w)
    \/ \E w \in Workers : handler_return(w)
    \/ \E w \in Workers : run_one_enter(w)
    \/ \E w \in Workers : RunOneStep(w)

IoSpec == Init /\ [][IoNext]_vars

\* The loop with handlers that may throw.
ThrowNext ==
    \/ execute
    \/ \E g \in LoopGuards : guard_construct(g)
    \/ \E g \in LoopGuards : guard_reset(g)
    \/ \E w \in Workers : run_enter(w)
    \/ \E w \in Workers : RunStep(w)
    \/ \E w \in Workers : handler_return(w)
    \/ \E w \in Workers : handler_throw(w)

ThrowSpec == Init /\ [][ThrowNext]_vars

\* ------------------------------------------------------------- fairness
\* A thread that is inside run() keeps taking steps: the scheduler runs it,
\* m_reactor.run_one returns when its timeout (at most PollInterval) ends,
\* and handlers are taken to terminate.  A thread that has begun
\* strand::post finishes it.  Entering run(), posting, guard operations,
\* stop() and restart() are the program's choice: no fairness.
\* The fair specifications let the first NumFairWorkers threads call run().
LoopFairNext ==
    \/ LoopCalls
    \/ \E w \in FairWorkers : run_enter(w)
    \/ \E w \in FairWorkers : RunStep(w)
    \/ \E w \in FairWorkers : handler_return(w)

LoopFairSpec ==
    /\ Init
    /\ [][LoopFairNext]_vars
    /\ \A w \in FairWorkers : WF_vars(RunStep(w) \/ handler_return(w))

StrandFairNext ==
    \/ StrandCalls
    \/ \E w \in FairWorkers : run_enter(w)
    \/ \E w \in FairWorkers : RunStep(w)
    \/ \E w \in FairWorkers : DrainStep(w)

StrandFairSpec ==
    /\ Init
    /\ [][StrandFairNext]_vars
    /\ \A w \in FairWorkers : WF_vars(RunStep(w) \/ DrainStep(w))
    /\ \A p \in Posters : WF_vars(PostStep(p))

\* One strand whose handlers nest calls of dispatch up to the recursion
\* limit and may throw, with a guard that may hold the loop; the threads
\* inside run() and post() keep running.
StrandDepthNext ==
    \/ \E g \in LoopGuards : guard_construct(g)
    \/ \E g \in LoopGuards : guard_reset(g)
    \/ \E p \in Posters : post_push(p)
    \/ \E t \in FairWorkers \cup Posters : PostStep(t)
    \/ \E t \in FairWorkers : dispatch_deep(t)
    \/ \E w \in FairWorkers : dispatch_return(w)
    \/ \E w \in FairWorkers : run_enter(w)
    \/ \E w \in FairWorkers : RunStep(w)
    \/ \E w \in FairWorkers : DrainStep(w)
    \/ \E w \in FairWorkers : en_handler_throw(w)

StrandDepthSpec ==
    /\ Init
    /\ [][StrandDepthNext]_vars
    /\ \A w \in FairWorkers :
          WF_vars(RunStep(w) \/ DrainStep(w) \/ PostStep(w) \/ dispatch_return(w))
    /\ \A p \in Posters : WF_vars(PostStep(p))

\* The loop, never stopped, with ordinary handlers, guards and a handler
\* that posts itself again each time it runs.
BatchFairNext ==
    \/ execute
    \/ execute_reposter
    \/ \E g \in LoopGuards : guard_construct(g)
    \/ \E g \in LoopGuards : guard_reset(g)
    \/ \E w \in FairWorkers : run_enter(w)
    \/ \E w \in FairWorkers : RunStep(w)
    \/ \E w \in FairWorkers : handler_return(w)
    \/ \E w \in FairWorkers : reposter_return(w)

BatchFairSpec ==
    /\ Init
    /\ [][BatchFairNext]_vars
    /\ \A w \in FairWorkers : WF_vars(RunStep(w) \/ handler_return(w) \/ reposter_return(w))

\* One strand on a loop that is stopped and restarted.
StrandStopNext ==
    \/ \E p \in Posters : post_push(p)
    \/ \E p \in Posters : PostStep(p)
    \/ stop_store
    \/ stop_queue
    \/ restart_clear
    \/ restart_store
    \/ \E w \in Workers : run_enter(w)
    \/ \E w \in Workers : RunStep(w)
    \/ \E w \in Workers : DrainStep(w)

StrandStopSpec == Init /\ [][StrandStopNext]_vars

\* ------------------------------------------------- co_spawn, schedule()
\* One computation: co_spawn(ctx, parent(), detached), where
\*   parent: p0; co_await ctx.schedule(); p1; v = co_await child(); p2
\*   child:  c0; co_await ctx.schedule(); c1; co_return value
\* and the child or the parent may end by throwing instead.  A frame is
\*   none | initial | running | schedule (suspended at the schedule await) |
\*   child (suspended at the await of the child) | final | destroyed
\* A worker that has popped one of the three handlers is at
\*   co_launch         the lambda of co_spawn: launcher(std::move(task))
\*   co_resume_parent  [t_handle] { t_handle.resume(); } for the parent
\*   co_resume_child   the same for the child
\*   co_body           executing the code that co_running names
co_unchanged_rest ==
    UNCHANGED <<strand_vars, queue_vars, race_vars, entry_vars, io_vars, sx_vars,
                timer_vars, rx_vars, tc_vars, tp_vars>>

co_unchanged_loop ==
    UNCHANGED <<m_stopped, m_work_count, q_stopped, guard, timeout, ctl, posted,
                exec_count, guarded>>

\* m_handlers after io_context::post(item), by its specification (4.4):
\* the handler is enqueued, never run by the caller
post_handler(item) == push(m_handlers, q_stopped, item)

\* schedule_operation::await_ready
schedule_await_ready == FALSE

\* awaitable_task::await_ready: !m_handle || m_handle.done()
task_await_ready(frame) == frame \in {"none", "final"}

\* the handler that resumes coroutine c, and the code it resumes
resumption(c) == IF c = "parent" THEN ResumeParent ELSE ResumeChild
coroutine_of(sg) == IF sg \in {"p0", "p1", "p2"} THEN "parent" ELSE "child"
after_schedule(c) == IF c = "parent" THEN "p1" ELSE "c1"
before_schedule(c) == IF c = "parent" THEN "p0" ELSE "c0"

\* history: the code sg runs, in the current handler invocation
ran(sg) == [seg_log EXCEPT ![sg] = [inv |-> co_inv, runs |-> @.runs + 1]]

\* co_spawn(ctx, task, detached): t_ctx.post(lambda holding the task); a
\* lambda the queue refuses is destroyed with the task
co_spawn(fault, value) ==
    /\ co_task = "none"
    /\ co_fault' = fault
    /\ co_value' = value
    /\ co_at' = [co_at EXCEPT !["parent"] = "initial"]
    /\ m_handlers' = post_handler(Spawned)
    /\ co_task' = IF push_accepts(q_stopped) THEN "posted" ELSE "dropped"
    /\ UNCHANGED <<pc, co_running, m_continuation, m_exception, m_result, co_received,
                   co_inv, seg_log, co_sched_stopped>>
    /\ co_unchanged_loop
    /\ co_unchanged_rest

\* the lambda runs: launcher(std::move(task)) starts (initial_suspend is
\* suspend_never) and co_awaits the task: await_suspend stores the
\* launcher as the task's continuation and returns the task's handle
launcher_await(w) ==
    /\ pc[w] = "co_launch"
    /\ co_inv' = co_inv + 1
    /\ co_task' = "started"
    /\ IF task_await_ready(co_at["parent"])
       THEN /\ co_running' = "launcher"
            /\ UNCHANGED <<m_continuation, co_at>>
       ELSE /\ m_continuation' = [m_continuation EXCEPT !["parent"] = "launcher"]
            /\ co_at' = [co_at EXCEPT !["parent"] = "running"]
            /\ co_running' = "p0"
    /\ goto(w, "co_body")
    /\ UNCHANGED <<m_handlers, co_fault, co_value, m_exception, m_result, co_received,
                   seg_log, co_sched_stopped>>
    /\ co_unchanged_loop
    /\ co_unchanged_rest

\* p0 or c0 runs up to co_await ctx.schedule(): await_suspend posts the
\* resumption, the coroutine stays suspended, control returns to the
\* handler that resumed it and the handler returns
await_schedule(w) ==
    /\ pc[w] = "co_body"
    /\ co_running \in {"p0", "c0"}
    /\ LET c == coroutine_of(co_running) IN
       /\ seg_log' = ran(co_running)
       /\ IF schedule_await_ready
          THEN /\ co_running' = after_schedule(c)
               /\ UNCHANGED <<m_handlers, co_at, co_sched_stopped, pc>>
          ELSE /\ m_handlers' = post_handler(resumption(c))
               /\ co_at' = [co_at EXCEPT ![c] = "schedule"]
               /\ co_sched_stopped' =
                      [co_sched_stopped EXCEPT ![c] = IF m_stopped THEN "stopped" ELSE "open"]
               /\ co_running' = "none"
               /\ goto(w, "drain")
    /\ UNCHANGED <<co_task, co_fault, co_value, m_continuation, m_exception, m_result,
                   co_received, co_inv>>
    /\ co_unchanged_loop
    /\ co_unchanged_rest

\* [t_handle] { t_handle.resume(); }: the coroutine goes on after its await
co_resume(w, c) ==
    /\ pc[w] = (IF c = "parent" THEN "co_resume_parent" ELSE "co_resume_child")
    /\ co_inv' = co_inv + 1
    /\ co_at' = [co_at EXCEPT ![c] = "running"]
    /\ co_running' = after_schedule(c)
    /\ goto(w, "co_body")
    /\ UNCHANGED <<m_handlers, co_task, co_fault, co_value, m_continuation, m_exception,
                   m_result, co_received, seg_log, co_sched_stopped>>
    /\ co_unchanged_loop
    /\ co_unchanged_rest

\* p1 runs up to co_await child(): the child's frame is created suspended
\* (initial_suspend is suspend_always); await_suspend stores the parent as
\* its continuation and returns its handle: the child starts
await_child(w) ==
    /\ pc[w] = "co_body"
    /\ co_running = "p1"
    /\ seg_log' = ran("p1")
    /\ IF task_await_ready("initial")
       THEN /\ co_running' = "p2"
            /\ UNCHANGED <<m_continuation, co_at>>
       ELSE /\ m_continuation' = [m_continuation EXCEPT !["child"] = "parent"]
            /\ co_at' = [co_at EXCEPT !["parent"] = "child", !["child"] = "running"]
            /\ co_running' = "c0"
    /\ UNCHANGED <<m_handlers, pc, co_task, co_fault, co_value, m_exception, m_result,
                   co_received, co_inv, co_sched_stopped>>
    /\ co_unchanged_loop
    /\ co_unchanged_rest

\* c1 runs to its end: return_value stores the value, or the body throws
\* and unhandled_exception stores the exception; final_awaiter::await_suspend
\* returns m_continuation, or noop_coroutine when there is none
child_finish(w) ==
    /\ pc[w] = "co_body"
    /\ co_running = "c1"
    /\ seg_log' = ran("c1")
    /\ IF co_fault = "child"
       THEN /\ m_exception' = [m_exception EXCEPT !["child"] = TRUE]
            /\ UNCHANGED m_result
       ELSE /\ m_result' = co_value
            /\ UNCHANGED m_exception
    /\ IF m_continuation["child"] = "parent"
       THEN /\ co_at' = [co_at EXCEPT !["child"] = "final", !["parent"] = "running"]
            /\ co_running' = "p2"
            /\ UNCHANGED pc
       ELSE /\ co_at' = [co_at EXCEPT !["child"] = "final"]
            /\ co_running' = "none"
            /\ goto(w, "drain")
    /\ UNCHANGED <<m_handlers, co_task, co_fault, co_value, m_continuation, co_received,
                   co_inv, co_sched_stopped>>
    /\ co_unchanged_loop
    /\ co_unchanged_rest

\* the parent is resumed by the child's final awaiter: await_resume returns
\* result(), which rethrows the child's exception or yields its value; the
\* child's frame is destroyed; p2 runs unless the await threw; the parent
\* ends by returning or by throwing; its final awaiter resumes the launcher
parent_finish(w) ==
    /\ pc[w] = "co_body"
    /\ co_running = "p2"
    /\ IF m_exception["child"]
       THEN /\ m_exception' = [m_exception EXCEPT !["parent"] = TRUE]
            /\ UNCHANGED <<co_received, seg_log>>
       ELSE /\ co_received' = m_result
            /\ seg_log' = ran("p2")
            /\ m_exception' = [m_exception EXCEPT !["parent"] = (co_fault = "parent")]
    /\ IF m_continuation["parent"] = "launcher"
       THEN /\ co_at' = [co_at EXCEPT !["child"] = "destroyed", !["parent"] = "final"]
            /\ co_running' = "launcher"
            /\ UNCHANGED pc
       ELSE /\ co_at' = [co_at EXCEPT !["child"] = "destroyed", !["parent"] = "final"]
            /\ co_running' = "none"
            /\ goto(w, "drain")
    /\ UNCHANGED <<m_handlers, co_task, co_fault, co_value, m_continuation, m_result,
                   co_inv, co_sched_stopped>>
    /\ co_unchanged_loop
    /\ co_unchanged_rest

\* faulty variant of the launcher's promise: unhandled_exception rethrows
launcher_resume_rethrows(w) ==
    /\ pc[w] = "co_body"
    /\ co_running = "launcher"
    /\ co_at' = [co_at EXCEPT !["parent"] = "destroyed"]
    /\ co_task' = "done"
    /\ co_running' = "none"
    /\ goto(w, IF m_exception["parent"] THEN "ret_exception" ELSE "drain")
    /\ UNCHANGED <<m_handlers, co_fault, co_value, m_continuation, m_exception, m_result,
                   co_received, co_inv, seg_log, co_sched_stopped>>
    /\ co_unchanged_loop
    /\ co_unchanged_rest

\* the launcher is resumed by the task's final awaiter: await_resume
\* rethrows the task's exception into the launcher, whose promise has an
\* empty unhandled_exception; final_suspend is suspend_never, so the
\* launcher's frame is destroyed and with it the task; the handler returns
launcher_resume(w) ==
    /\ pc[w] = "co_body"
    /\ co_running = "launcher"
    /\ co_at' = [co_at EXCEPT !["parent"] = "destroyed"]
    /\ co_task' = "done"
    /\ co_running' = "none"
    /\ goto(w, "drain")
    /\ UNCHANGED <<m_handlers, co_fault, co_value, m_continuation, m_exception, m_result,
                   co_received, co_inv, seg_log, co_sched_stopped>>
    /\ co_unchanged_loop
    /\ co_unchanged_rest

\* the steps of worker w inside a handler of the coroutine layer
CoStep(w) ==
    \/ launcher_await(w)
    \/ await_schedule(w)
    \/ \E c \in Coroutines : co_resume(w, c)
    \/ await_child(w)
    \/ child_finish(w)
    \/ parent_finish(w)
    \/ launcher_resume(w)

\* A loop on which one computation is spawned, with guards, and which may
\* be stopped.
CoNext ==
    \/ \E fault \in {"none", "child", "parent"}, value \in CoValues : co_spawn(fault, value)
    \/ \E g \in LoopGuards : guard_construct(g)
    \/ \E g \in LoopGuards : guard_reset(g)
    \/ stop_store
    \/ stop_queue
    \/ \E w \in FairWorkers : run_enter(w)
    \/ \E w \in FairWorkers : RunStep(w)
    \/ \E w \in FairWorkers : CoStep(w)

\* Threads inside run() keep running and coroutine bodies terminate;
\* spawning, entering run() and stop() are the program's choice.
CoSpec ==
    /\ Init
    /\ [][CoNext]_vars
    /\ \A w \in FairWorkers : WF_vars(RunStep(w) \/ CoStep(w))

\* ------------------------------------------------------------ thread_pool
\* The pool's threads are the first NumFairWorkers threads; each runs
\* worker_thread, whose positions are
\*   unborn         the pool is not constructed yet
\*   while_token    at `!t_stoptoken.stop_requested()` of the while
\*   while_stopped  at `!m_context.stopped()` of the while
\*   call_run       about to call m_context.run()
\*   in_run         inside run(), or back from it (pc[w] tells)
\*   if_token       at `t_stoptoken.stop_requested()` of the if after run()
\*   restart_clear  at m_handlers.clear() of m_context.restart()
\*   restart_store  at m_stopped.store(false) of m_context.restart()
\*   exited         worker_thread has returned
\* and stop() is called once, by one thread, at positions
\*   idle | stop_store | stop_queue | request | returned
tp_unchanged_rest ==
    UNCHANGED <<strand_vars, queue_vars, race_vars, dispatched, io_vars, sx_vars,
                timer_vars, rx_vars, tc_vars, co_vars>>

\* thread_pool::thread_pool: m_work_guard(make_work_guard(m_context)), then
\* the threads are started
thread_pool_construct ==
    /\ \A w \in FairWorkers : wpc[w] = "unborn"
    /\ guard[m_work_guard] = "unborn"
    /\ guard' = [guard EXCEPT ![m_work_guard] = "owning"]
    /\ m_work_count' = m_work_count + 1
    /\ wpc' = [w \in Workers |-> IF w \in FairWorkers THEN "while_token" ELSE wpc[w]]
    /\ UNCHANGED <<m_stopped, m_handlers, q_stopped, pc, timeout, ctl, posted, exec_count,
                   guarded, s_current_context, stop_requested, spc>>
    /\ tp_unchanged_rest

\* what a step of worker_thread outside run() and restart() leaves alone
worker_unchanged ==
    /\ UNCHANGED <<m_stopped, m_work_count, m_handlers, q_stopped, guard, timeout, ctl,
                   posted, exec_count, guarded, stop_requested, spc>>
    /\ tp_unchanged_rest

wgoto(w, position) == wpc' = [wpc EXCEPT ![w] = position]

\* while (!t_stoptoken.stop_requested() && ...
worker_while_token(w) ==
    /\ wpc[w] = "while_token"
    /\ wgoto(w, IF w \in stop_requested THEN "exited" ELSE "while_stopped")
    /\ UNCHANGED <<pc, s_current_context>>
    /\ worker_unchanged

\* ... && !m_context.stopped())
worker_while_stopped(w) ==
    /\ wpc[w] = "while_stopped"
    /\ wgoto(w, IF m_stopped THEN "exited" ELSE "call_run")
    /\ UNCHANGED <<pc, s_current_context>>
    /\ worker_unchanged

\* m_context.run() is entered: s_current_context = this
worker_run_enter(w) ==
    /\ wpc[w] = "call_run"
    /\ wgoto(w, "in_run")
    /\ goto(w, "while")
    /\ set_context(w, "this")
    /\ worker_unchanged

\* run() has returned: if (m_context.stopped() || ...
worker_if_stopped(w) ==
    /\ wpc[w] = "in_run"
    /\ pc[w] \in {"ret_stopped", "ret_nowork"}
    /\ wgoto(w, IF m_stopped THEN "exited" ELSE "if_token")
    /\ UNCHANGED <<pc, s_current_context>>
    /\ worker_unchanged

\* ... || t_stoptoken.stop_requested()) break;
worker_if_token(w) ==
    /\ wpc[w] = "if_token"
    /\ wgoto(w, IF w \in stop_requested THEN "exited" ELSE "restart_clear")
    /\ UNCHANGED <<pc, s_current_context>>
    /\ worker_unchanged

\* m_context.restart(), first statement: m_handlers.clear()
worker_restart_clear(w) ==
    /\ wpc[w] = "restart_clear"
    /\ wgoto(w, "restart_store")
    /\ m_handlers' = <<>>
    /\ guarded' = {}
    /\ UNCHANGED <<m_stopped, m_work_count, q_stopped, guard, pc, timeout, ctl, posted,
                   exec_count, s_current_context, stop_requested, spc>>
    /\ tp_unchanged_rest

\* m_context.restart(), second statement: m_stopped.store(false)
worker_restart_store(w) ==
    /\ wpc[w] = "restart_store"
    /\ wgoto(w, "while_token")
    /\ m_stopped' = FALSE
    /\ UNCHANGED <<m_work_count, m_handlers, q_stopped, guard, pc, timeout, ctl, posted,
                   exec_count, guarded, s_current_context, stop_requested, spc>>
    /\ tp_unchanged_rest

\* faulty variant of the catch clauses: the worker gives up
worker_catch_breaks(w) ==
    /\ wpc[w] = "in_run"
    /\ pc[w] = "ret_exception"
    /\ wgoto(w, "exited")
    /\ UNCHANGED <<pc, s_current_context>>
    /\ worker_unchanged

\* run() was left by an exception: catch (...) { if (stop_requested()) break; }
worker_catch(w) ==
    /\ wpc[w] = "in_run"
    /\ pc[w] = "ret_exception"
    /\ wgoto(w, IF w \in stop_requested THEN "exited" ELSE "while_token")
    /\ UNCHANGED <<pc, s_current_context>>
    /\ worker_unchanged

\* thread_pool::stop: m_work_guard.reset()
pool_stop_reset ==
    /\ spc = "idle"
    /\ guard[m_work_guard] # "unborn"
    /\ m_work_count' = IF guard[m_work_guard] = "owning" THEN m_work_count - 1
                       ELSE m_work_count
    /\ guard' = [guard EXCEPT ![m_work_guard] = "released"]
    /\ spc' = "stop_store"
    /\ UNCHANGED <<m_stopped, m_handlers, q_stopped, pc, timeout, ctl, posted, exec_count,
                   guarded, s_current_context, wpc, stop_requested>>
    /\ tp_unchanged_rest

\* thread_pool::stop: m_context.stop(), first statement m_stopped.store(true)
pool_stop_store ==
    /\ spc = "stop_store"
    /\ m_stopped' = TRUE
    /\ spc' = "stop_queue"
    /\ UNCHANGED <<m_work_count, m_handlers, q_stopped, guard, pc, timeout, ctl, posted,
                   exec_count, guarded, s_current_context, wpc, stop_requested>>
    /\ tp_unchanged_rest

\* thread_pool::stop: m_context.stop(), second statement m_handlers.stop()
pool_stop_queue ==
    /\ spc = "stop_queue"
    /\ q_stopped' = TRUE
    /\ spc' = "request"
    /\ UNCHANGED <<m_stopped, m_work_count, m_handlers, guard, pc, timeout, ctl, posted,
                   exec_count, guarded, s_current_context, wpc, stop_requested>>
    /\ tp_unchanged_rest

\* thread_pool::stop: for (thread : m_threads) thread.request_stop(); the
\* call returns after the last one
pool_request_stop(w) ==
    /\ spc = "request"
    /\ w \in FairWorkers \ stop_requested
    /\ \A v \in FairWorkers \ stop_requested : w <= v
    /\ stop_requested' = stop_requested \cup {w}
    /\ spc' = IF FairWorkers \subseteq stop_requested \cup {w} THEN "returned" ELSE "request"
    /\ UNCHANGED <<m_stopped, m_work_count, m_handlers, q_stopped, guard, pc, timeout, ctl,
                   posted, exec_count, guarded, s_current_context, wpc>>
    /\ tp_unchanged_rest

\* the steps of pool thread w outside run()
WorkerStep(w) ==
    \/ worker_while_token(w)
    \/ worker_while_stopped(w)
    \/ worker_run_enter(w)
    \/ worker_if_stopped(w)
    \/ worker_if_token(w)
    \/ worker_restart_clear(w)
    \/ worker_restart_store(w)
    \/ worker_catch(w)

\* A pool: tasks are posted (thread_pool::post calls m_context.post), some
\* throw, and stop() is called once.
ThreadPoolNext ==
    \/ thread_pool_construct
    \/ post
    \/ pool_stop_reset
    \/ pool_stop_store
    \/ pool_stop_queue
    \/ \E w \in FairWorkers : pool_request_stop(w)
    \/ \E w \in FairWorkers : WorkerStep(w)
    \/ \E w \in FairWorkers : RunStep(w)
    \/ \E w \in FairWorkers : handler_return(w)
    \/ \E w \in FairWorkers : handler_throw(w)

\* The pool's threads keep running, m_reactor.run_one returns when its
\* timeout ends and tasks return or throw; posting and stop() are the
\* program's choice.
ThreadPoolSpec ==
    /\ Init
    /\ [][ThreadPoolNext]_vars
    /\ \A w \in FairWorkers :
          WF_vars(WorkerStep(w) \/ RunStep(w) \/ handler_return(w) \/ handler_throw(w))

\* ---------------------------------------------------------------- claims

Range(q) == {q[i] : i \in 1..Len(q)}
OwnsWork == \E g \in Guards : guard[g] = "owning"
\* stop() was never called: restart() re-arms m_stopped but nothing re-arms
\* the queue's own flag
NeverStopped == ~m_stopped /\ ~q_stopped

\* positions of execute_next in which the worker holds the draining flag
Draining == {"en_set_id", "en_try_pop", "en_handler", "en_clear_id", "en_release",
             "en_restore_id"}

\* C1: at most one handler of the strand is executing, and at most one
\* worker is inside the drain loop of execute_next holding m_executing,
\* in every reachable state.
C1_StrandMutualExclusion ==
    /\ Cardinality({w \in Workers : pc[w] = "en_handler"}) <= 1
    /\ Cardinality({w \in Workers : pc[w] \in Draining}) <= 1
    /\ (\E w \in Workers : pc[w] \in Draining) => m_executing

\* the hand-off: a drainer has released the flag and found the queue
\* refilled, while another worker already runs a handler of the strand
C1_Witness ==
    \E a, b \in Workers : pc[a] = "en_cas" /\ pc[b] = "en_handler"

\* C2: strand handlers begin executing in the order they were appended to
\* the strand's queue (the k-th appended handler is handler k).
C2_StrandFifo ==
    /\ Len(s_exec) <= s_posted
    /\ \A i \in 1..Len(s_exec) : s_exec[i] = i

\* every handler ran, the last one on a worker that took over from a
\* drainer which is still leaving
C2_Witness ==
    /\ Len(s_exec) = MaxStrandPosts
    /\ \E a, b \in Workers : pc[a] \in {"en_recheck", "en_cas"} /\ pc[b] = "en_handler"

\* C4: a handler handed to execute is invoked at most once, a handler
\* that was never handed over is never invoked, and on a loop that was never
\* stopped every accepted handler is either still queued or was invoked
\* exactly once - so exactly once when the queue has been drained.
C4_ExactlyOnce ==
    /\ \A h \in 1..MaxPosts : exec_count[h] <= 1
    /\ \A h \in 1..MaxPosts : h > posted => exec_count[h] = 0
    /\ NeverStopped =>
         \A h \in 1..posted : exec_count[h] = (IF h \in Range(m_handlers) THEN 0 ELSE 1)

\* two workers are running handlers at the same time, nothing is queued
C4_Witness ==
    /\ NeverStopped
    /\ posted = MaxPosts
    /\ empty(m_handlers)
    /\ \A h \in 1..posted : exec_count[h] = 1
    /\ Cardinality({w \in Workers : pc[w] = "handler"}) >= 2

\* C5: the items leave the bare queue in the order they were pushed (item k
\* is the k-th push), none twice, none skipped, whichever of pop and
\* try_pop removed them.
C5_PopOrderIsPrefix ==
    /\ Len(pop_log) <= pushed
    /\ \A i \in 1..Len(pop_log) : pop_log[i] = i
    /\ pop_log \o wq = [i \in 1..pushed |-> i]

\* a consumer woken inside pop() is about to take an item after others
\* were removed, on a queue that is not stopped
C5_Witness ==
    /\ ~wq_stopped
    /\ Len(pop_log) >= 2
    /\ ~empty(wq)
    /\ \E c \in Consumers : cpc[c] = "take"

\* the step by which worker w leaves run() because has_pending_work() is false
ReturnsNoWork(w) == pc[w] = "hpw_wc" /\ pc'[w] = "ret_nowork"
\* the step by which worker w invokes an ordinary handler
BeginsHandler(w) == pc[w] = "drain" /\ pc'[w] = "handler"

\* C6 (as claimed): run() never returns from a non-stopped loop while a
\* handler that was accepted under a work guard is still queued.
C6_NoReturnWithQueuedHandler ==
    [][\A w \in Workers : (ReturnsNoWork(w) /\ ~m_stopped) => guarded = {}]_vars

C9_NoHandlerAfterStop ==
    [][(m_stopped /\ q_stopped /\ ctl = "idle") => \A w \in Workers : ~BeginsHandler(w)]_vars

\* the step by which the program hands handler posted + 1 to execute
Executes == posted' = posted + 1

\* C11 (as claimed): whenever the loop is not stopped and no stop() or
\* restart() is in progress - in particular after stop() followed by
\* restart() - a handler handed to execute is enqueued.
C11_RestartAcceptsWork ==
    [][(Executes /\ ~m_stopped /\ ctl = "idle") => (posted + 1) \in Range(m_handlers')]_vars

\* positions of a consumer inside pop()
InPop == {"pred", "block", "waiting", "woken", "take"}

\* C12 (as claimed): a consumer that is inside pop() once the queue is
\* stopped eventually returns, wherever in its wait stop() found it.
C12_StopReleasesConsumers ==
    \A c \in Consumers : (wq_stopped /\ cpc[c] \in InPop) ~> (cpc[c] = "idle")

\* C13: once the bare queue is stopped it stays stopped, no push is accepted
\* any more, a push that returns false leaves the contents unchanged, and
\* every step - a further stop() included - leaves the contents as they
\* were or removes the front.
C13_StoppedQueueRefusesPush ==
    [][wq_stopped =>
         /\ wq_stopped'
         /\ pushed' = pushed
         /\ (refused' # refused => wq' = wq)
         /\ (wq' = wq \/ (~empty(wq) /\ wq' = pop_front(wq)))]_vars

\* pushes were refused by a stopped queue that still holds items
C13_Witness ==
    /\ wq_stopped
    /\ refused >= 2
    /\ ~empty(wq)

\* C14: every try_pop on the bare queue, stopped or not, returns the oldest
\* item that has not left the queue yet and removes it; on an empty queue it
\* returns 'stopped' if the queue is stopped and 'empty' otherwise, and
\* leaves the queue as it was.
C14_TryPopDrainsStoppedQueue ==
    [][\A c \in Consumers : wq_try_pop(c) =>
         IF Len(pop_log) < pushed
         THEN /\ tp_ret'.has_value
              /\ tp_ret'.value = Len(pop_log) + 1
              /\ Len(wq') = Len(wq) - 1
              /\ pop_log' = Append(pop_log, Len(pop_log) + 1)
         ELSE /\ ~tp_ret'.has_value
              /\ tp_ret'.error = (IF wq_stopped THEN "stopped" ELSE "empty")
              /\ wq' = wq
              /\ pop_log' = pop_log]_vars

\* a try_pop has drained the stopped queue: items were taken after pushes
\* had been refused, and the latest try_pop answered 'stopped'
C14_Witness ==
    /\ wq_stopped
    /\ refused >= 1
    /\ Len(pop_log) = pushed /\ pushed >= 2
    /\ ~tp_ret.has_value /\ tp_ret.error = "stopped"

\* C15: the work count equals the number of guards that own work, and is
\* never negative, whatever was constructed, moved, reset or destroyed.
C15_WorkCountIsOwners ==
    /\ m_work_count = Cardinality({g \in Guards : guard[g] = "owning"})
    /\ m_work_count >= 0

\* one guard is gone, another one still owns work and keeps a worker
\* waiting in the reactor
C15_Witness ==
    /\ \E g \in Guards : guard[g] = "destroyed"
    /\ \E g \in Guards : guard[g] = "owning"
    /\ m_work_count = 1
    /\ \E w \in Workers : pc[w] = "reactor" /\ timeout[w] = PollInterval

\* C16 (as claimed): whenever no reset() is in progress, the work count
\* equals the number of guards that own work - concurrent reset() calls on
\* one owning guard have decremented it once in total.
C16_ConcurrentResetDecrementsOnce ==
    (\A t \in ResetThreads : rpc[t] = "idle") =>
        m_work_count = Cardinality({g \in Guards : guard[g] = "owning"})

\* C17 (as claimed): a handler dispatched from a handler that is executing
\* inside run() has run when dispatch returns; a handler dispatched from
\* outside the loop's entry points was only enqueued.
C17_DispatchInsideRunIsSynchronous ==
    \A h \in 1..MaxPosts :
        /\ dispatched[h].from = "handler" => dispatched[h].how = "sync" /\ exec_count[h] = 1
        /\ dispatched[h].from = "outside" => dispatched[h].how = "queued"

\* C18 (as claimed): a call of run_one() executes at most one unit (a
\* queued handler or an I/O completion), and returns the number of units it
\* executed.
C18_RunOneExecutesAtMostOne ==
    \A w \in Workers :
        /\ ro_units[w] <= 1
        /\ pc[w] = "ret_run_one" => ro_ret[w] = ro_units[w]

\* C19 (as claimed): run() does not return from a non-stopped loop while a
\* descriptor is registered with the reactor.
C19_NoReturnWithRegisteredDescriptor ==
    [][\A w \in Workers : (ReturnsNoWork(w) /\ ~m_stopped) => r_handlers = {}]_vars

\* C20 (as claimed): whatever a handler does, the thread that invoked it
\* from run() is still inside run() afterwards and goes on with the queue.
C20_HandlerExceptionStaysInRun ==
    [][\A w \in Workers : pc[w] = "handler" => pc'[w] \in {"handler", "drain"}]_vars

\* nothing of the strand is in progress: no thread is inside post or
\* execute_next and no trampoline is queued on the loop
StrandQuiescent ==
    /\ \A t \in Threads : ppc[t] = "idle"
    /\ \A w \in Workers : pc[w] \notin Draining \cup {"en_recheck", "en_cas"}
    /\ Trampoline \notin Range(m_handlers)

\* C21: a strand handler that throws does not end the drain - the thread
\* goes on with the strand's queue, the handlers still begin in the order
\* they were appended, the running-thread id only ever names a thread that
\* is draining, and once nothing of the strand is in progress the queue
\* is empty, every appended handler has run, the draining flag is clear and
\* the running-thread id is the null id.
C21_StrandSwallowsException ==
    /\ [][\A w \in Workers : pc[w] = "en_handler" => pc'[w] \in {"en_handler", "en_try_pop"}]_vars
    /\ [](\A i \in 1..Len(s_exec) : s_exec[i] = i)
    /\ [](\A w \in Workers : m_running_thread_id = w =>
              pc[w] \in {"en_try_pop", "en_handler", "en_clear_id"})
    /\ [](StrandQuiescent =>
              /\ empty(s_queue)
              /\ Len(s_exec) = s_posted
              /\ ~m_executing
              /\ m_running_thread_id = NoThread)

\* the first handler threw, the handlers behind it ran, and the strand
\* has come to rest
C21_Witness ==
    /\ 1 \in s_threw
    /\ s_posted = MaxStrandPosts
    /\ Len(s_exec) = MaxStrandPosts
    /\ StrandQuiescent
    /\ \A w \in Workers : ~InRun(w)

\* C22: a call of dispatch made by a handler of the strand runs its
\* handler inline (nothing is appended, the caller's handler does not go on
\* before it has returned); a call made by any other thread, also while
\* the strand is busy, only appends the handler to the strand's queue; at
\* most one thread is executing handlers of the strand, inline ones
\* included; and the running-thread id names the thread that executes a
\* handler and never a thread outside the drain loop.
C22_StrandDispatch ==
    /\ \A r \in sd_log : r.inline <=> r.in_handler
    /\ Cardinality({t \in Threads : in_strand_handler(t)}) <= 1
    /\ \A t \in Threads : in_strand_handler(t) => m_running_thread_id = t
    /\ \A w \in Workers : m_running_thread_id = w =>
           pc[w] \in {"en_try_pop", "en_handler", "en_clear_id"}
    /\ \A t \in Threads : s_execution_depth[t] > 0 => ppc[t] = "idle"

\* a handler of the strand is inside a handler it dispatched inline, and a
\* thread outside the loop has dispatched while the strand was busy: its
\* handler is waiting in the strand's queue
C22_Witness ==
    /\ \E w \in Workers : pc[w] = "en_handler" /\ s_execution_depth[w] = 1
    /\ [in_handler |-> TRUE, busy |-> TRUE, inline |-> TRUE] \in sd_log
    /\ [in_handler |-> FALSE, busy |-> TRUE, inline |-> FALSE] \in sd_log
    /\ ~empty(s_queue)

\* the ids of the entries the timer queue holds
PendingIds == {m_timers[i].id : i \in 1..Len(m_timers)}

\* C23 (as claimed): get_next_expiry is the smallest pending deadline;
\* pop_expired returns an entry exactly when some pending deadline is due,
\* and the entry it removes has the smallest pending deadline and is due.
C23_EarliestDeadlineFirst ==
    /\ ~empty(m_timers) => get_next_expiry(m_timers).value = least_deadline(m_timers)
    /\ t_ret.op = "pop_expired" => (t_ret.ok <=> t_ret.due)
    /\ \A i \in 1..Len(t_log) :
          /\ t_log[i].deadline <= t_log[i].at
          /\ t_log[i].deadline = t_log[i].least

\* C24 (as claimed): every timer add_timer returned an id for is a pending
\* entry until it is cancelled or expires (so the size grows by one per
\* add_timer), and timers with equal deadlines expire in the order of
\* their ids.
C24_SameDeadlineBothKept ==
    /\ \A a \in t_added :
          \/ a.id \in PendingIds
          \/ a.id \in t_cancelled
          \/ \E i \in 1..Len(t_log) : t_log[i].id = a.id
    /\ Len(m_timers) + Cardinality(t_cancelled) + Len(t_log) = Cardinality(t_added)
    /\ \A i, j \in 1..Len(t_log) :
          i < j /\ t_log[i].deadline = t_log[j].deadline => t_log[i].id < t_log[j].id

\* a step in which cancel_timer(id) returns
CancelReturns(id) ==
    /\ t_ret'.op = "cancel_timer"
    /\ t_ret'.arg = id
    /\ UNCHANGED <<m_next_id, clock, tpc, t_log>>

C26_ProcessExpiredInvokesWhatItRemoves ==
    /\ tpc # "pe_check" => pe_removed = pe_count
    /\ tpc = "idle" /\ t_ret.op = "process_expired" => t_ret.value = pe_removed

\* C27: the handler of a registration is invoked at most once; a thread
\* that is about to invoke a handler has taken it out of the table, so no
\* entry of the table and no other thread holds it; and a thread holds a
\* handler only for the descriptor it found the handler under.
C27_AtMostOncePerRegistration ==
    /\ \A r \in 1..MaxRegs : delivered[r] <= 1
    /\ \A w \in Workers : xpc[w] = "x_invoke" =>
          /\ x_handler[w] \in 1..reg_count
          /\ delivered[x_handler[w]] = 0
          /\ \A fd \in Fds : r_entry[fd].handler # x_handler[w]
          /\ \A v \in Workers \ {w} : x_handler[v] # x_handler[w]
    /\ \A fd \in Fds : (fd \in r_handlers) <=> (r_entry[fd].handler # 0)

\* two threads were woken for the same descriptor: one has taken the
\* handler and is about to invoke it, the other is about to look the
\* descriptor up and will find nothing
C27_Witness ==
    \E w, v \in Workers :
        /\ xpc[w] = "x_invoke"
        /\ xpc[v] = "x_lookup"
        /\ x_fd[v] = x_fd[w]
        /\ x_fd[w] \notin r_handlers

\* C28 (as claimed): a register_descriptor call for a descriptor whose
\* previous registration was delivered does not fail, and the descriptor
\* has the new handler until that is delivered or unregistered.
C28_ReRegisterAfterDelivery ==
    (gpc = "idle" /\ reg_ret.prior = "delivered") =>
        /\ ~reg_ret.threw
        /\ fd_state[reg_ret.fd] = "registered" => r_entry[reg_ret.fd].handler = reg_ret.reg

\* C29 (as claimed): a register_descriptor call for a descriptor that is
\* registered and waiting does not fail, and the descriptor has the new
\* handler and operation mask until that is delivered or unregistered.
C29_RegisterUpdatesRegistration ==
    (gpc = "idle" /\ reg_ret.prior = "registered") =>
        /\ ~reg_ret.threw
        /\ fd_state[reg_ret.fd] = "registered" => r_entry[reg_ret.fd].handler = reg_ret.reg

\* C30 (as claimed): a completion for an event with error or hang-up
\* carries a non-success error code; a completion for read or write
\* readiness alone carries success; the byte count is zero.
C30_ErrorEventsCompleteWithError ==
    /\ ("error" \in completion.events \/ "hangup" \in completion.events) => completion.ec # 0
    /\ (completion.events # {} /\ completion.events \subseteq {"read", "write"}) =>
          completion.ec = 0
    /\ completion.bytes = 0

\* C35 (as claimed): the thread-local current-loop pointer of a thread
\* designates the loop exactly while the thread is inside an entry point of
\* the loop: after an entry point was left, normally or by an exception, it
\* is cleared, and inside a handler - also after a nested entry point that
\* the handler called has returned - it designates the loop.
C35_CurrentContextTracksEntry ==
    \A w \in Workers : running_in_this_thread(w) <=> InRun(w)

\* C34 (as claimed): a thread that is draining the queue inside run() of
\* a loop that is not stopped polls the reactor again (or leaves run()),
\* whatever the handlers post.
C34_DrainReachesReactor ==
    \A w \in FairWorkers :
        (pc[w] \in {"drain", "handler", "reposter"} /\ ~m_stopped)
            ~> (pc[w] = "reactor" \/ pc[w] \in OutOfRun \/ m_stopped)

\* C37 (as claimed): the draining flag of the strand is true only while a
\* drain trampoline is queued on the loop, is running, or is being handed
\* to the loop by the thread whose post has just set the flag.
C37_ExecutingFlagHasTrampoline ==
    m_executing =>
        \/ Trampoline \in Range(m_handlers)
        \/ \E w \in Workers : pc[w] \in Draining
        \/ \E t \in Threads : ppc[t] = "execute"

\* C40: the container of a work_queue is only touched under the queue's
\* mutex: a step that clears it is never taken while another thread is
\* inside a critical section on the same container.
C40_ClearUnderMutex ==
    [][wq_clear => wq_mutex = NoThread]_vars

\* C39: a timer handler that clear() or process_expired() invokes may call
\* add_timer or cancel_timer on the same queue and the call completes: the
\* thread that runs the handler never waits for a lock it holds itself, so
\* the call is neither blocked forever nor made to fail.
C39_ReentrantCallCompletes ==
    \A t \in TimerThreads :
        /\ ~(hpc[t] = "lock" /\ tq_mutex = t)
        /\ hpc[t] \notin {"blocked", "threw"}

\* C36: the per-thread recursion depth of strand::dispatch never exceeds
\* max_recursion_depth; a call made by the drainer at that depth runs
\* nothing inline, it appends the handler to the strand's queue as post
\* does and leaves the depth alone; a handler appended that way is
\* eventually executed; and the depth is back at what it was when the call
\* returns or throws: every step changes it by one call at most, and a
\* thread that is not inside a handler of the strand has depth 0.
C36_AtLimit(t) ==
    strand_running_in_this_thread(t) /\ s_execution_depth[t] = max_recursion_depth

C36_RecursionDepthBounded ==
    /\ [](\A t \in Threads :
            /\ s_execution_depth[t] <= max_recursion_depth
            /\ s_execution_depth[t] > 0 => t \in Workers /\ pc[t] = "en_handler")
    /\ [][\A t \in Threads :
            /\ C36_AtLimit(t) /\ dispatch_deep(t) =>
                  /\ s_queue' = Append(s_queue, s_posted + 1)
                  /\ ppc'[t] = "cas"
                  /\ UNCHANGED <<s_execution_depth, s_exec>>
            /\ dispatch_return(t) => s_execution_depth'[t] = s_execution_depth[t] - 1
            /\ s_execution_depth'[t] - s_execution_depth[t] \in {-1, 0, 1}]_vars
    /\ \A h \in 1..MaxStrandPosts :
          (h \in Range(s_queue) /\ \E t \in Threads : C36_AtLimit(t) /\ ppc[t] = "cas")
              ~> (h \in Range(s_exec))

\* a handler was dispatched at depth max_recursion_depth and posted; all
\* calls have returned since and every handler of the strand has executed
C36_Witness ==
    /\ \E r \in sd_log : r.in_handler /\ ~r.inline
    /\ \A t \in Threads : s_execution_depth[t] = 0
    /\ s_posted > 1
    /\ Len(s_exec) = s_posted
    /\ empty(s_queue)

\* the pool's stop() has been called
StopBegun == spc # "idle"

C38_StoppedAfterStop ==
    spc = "returned" => m_stopped

\* after stop() has returned every pool thread eventually leaves its loop
PoolThreadsExit ==
    (spc = "returned") ~> (\A w \in FairWorkers : wpc[w] = "exited")

\* C32: co_await ctx.schedule() always suspends: the code after the await
\* runs at most once and in a later handler invocation than the code before
\* it, never on the awaiting call stack; and when the loop was stopped at
\* the time the resumption was posted, the code after the await never runs.
C32_ScheduleDefers ==
    \A c \in Coroutines :
        /\ seg_log[after_schedule(c)].runs <= 1
        /\ seg_log[after_schedule(c)].runs > 0 =>
              seg_log[after_schedule(c)].inv > seg_log[before_schedule(c)].inv
        /\ co_sched_stopped[c] = "stopped" => seg_log[after_schedule(c)].runs = 0

\* C33: co_spawn runs nothing of the computation itself; every piece of it
\* runs once at most, in a handler invocation of a worker; the parent goes
\* on after its await of the child only when the child has finished, and
\* with the child's value; no exception of the computation leaves run();
\* and while a worker stays inside run() of a loop that is not stopped, a
\* spawned computation is driven to its end.
C33_SpawnDetached ==
    /\ [](/\ co_task \in {"none", "posted", "dropped"} =>
                \A sg \in Segments : seg_log[sg].runs = 0
          /\ \A sg \in Segments : seg_log[sg].runs <= 1 /\ (seg_log[sg].runs = 1 => seg_log[sg].inv >= 1)
          /\ seg_log["p2"].runs = 1 =>
                /\ seg_log["c1"].runs = 1
                /\ co_at["child"] \in {"final", "destroyed"}
                /\ co_received = co_value
          /\ co_at["parent"] = "child" => co_at["child"] \in {"running", "schedule"}
          /\ \A w \in Workers : pc[w] # "ret_exception")
    /\ (co_task \in {"posted", "started"})
          ~> (co_task = "done" \/ m_stopped \/ q_stopped \/ \A w \in Workers : ~InRun(w))

\* the computation has ended after two resumptions: the parent received
\* the child's value and then threw, and the exception stayed in the launcher
C33_Witness ==
    /\ co_task = "done"
    /\ co_fault = "parent"
    /\ m_exception["parent"]
    /\ seg_log["p2"].runs = 1
    /\ co_received = co_value
    /\ seg_log["c1"].inv > seg_log["c0"].inv
    /\ seg_log["c0"].inv > seg_log["p0"].inv
    /\ \E w \in Workers : InRun(w)

\* C3: a queued strand handler is never stranded - whenever the strand's
\* queue is not empty, the flag is held or somebody is about to test it -
\* and, while some worker stays inside run(), every handler appended to the
\* strand's queue is eventually executed.
StrandWakeupPending ==
    ~empty(s_queue) =>
        \/ m_executing
        \/ \E p \in Posters : ppc[p] = "cas"
        \/ \E w \in Workers : pc[w] \in {"en_recheck", "en_cas"}

C3_StrandHandlerEventuallyRuns ==
    /\ []StrandWakeupPending
    /\ \A h \in 1..MaxStrandPosts :
         (h \in Range(s_queue)) ~> (h \in Range(s_exec) \/ \A w \in Workers : ~InRun(w))

\* the race: the drainer released the flag, found the queue refilled by a
\* poster whose CAS had failed, and took the flag back
C3_Witness ==
    /\ \E w \in Workers : pc[w] = "en_restore_id"
    /\ ~empty(s_queue)
    /\ \A p \in Posters : ppc[p] = "idle"
    /\ empty(m_handlers)

\* C8: once no guard owns work any more (one was reset), on an empty queue
\* of a loop that was never stopped, every worker inside run() eventually
\* returns, unless a new guard is constructed first.
C8_RunReturnsAfterLastReset ==
    \A w \in Workers :
        (/\ ~OwnsWork
         /\ \E g \in Guards : guard[g] = "released"
         /\ NeverStopped
         /\ empty(m_handlers)
         /\ InRun(w)) ~> (~InRun(w) \/ OwnsWork)

\* all workers have left run() for lack of work after the guard was reset
C8_Witness ==
    /\ ~OwnsWork
    /\ \E g \in Guards : guard[g] = "released"
    /\ NeverStopped
    /\ \A w \in FairWorkers : pc[w] = "ret_nowork"

\* C10: a worker that is inside run() while the loop is stopped eventually
\* returns (unless restart() re-arms the loop first).
C10_StopEndsRun ==
    \A w \in Workers : (m_stopped /\ InRun(w)) ~> (~InRun(w) \/ ~m_stopped)

\* every worker has left run() on the stop flag, a guard still owning work
C10_Witness ==
    /\ m_stopped
    /\ OwnsWork
    /\ \A w \in FairWorkers : pc[w] = "ret_stopped"

====
